---- MODULE Spec2Model ----
(***************************************************************************)
(* A model of src-tauri/src/script_to_audio.rs: the audio-buffer algebra,  *)
(* the effect engine, and the job that walks a parsed script tree.         *)
(*                                                                         *)
(* Number representation.  f32 quantities (samples, seconds, speeds,       *)
(* gains) are fixed-point integers in thousandths: 1.0 is 1000, 0.85 is    *)
(* 850, the trim threshold 0.002 is 2.  Products and quotients of two such *)
(* values are rescaled by Quot, which rounds toward zero.  Sample rates    *)
(* are small integers (samples per second) so that a one-second pause is a *)
(* handful of samples.  An Option<T> is the empty tuple (None) or a        *)
(* one-element tuple (Some(v)).                                            *)
(***************************************************************************)
EXTENDS Integers, Sequences, FiniteSets, TLC

----------------------------------------------------------------------------
(* Arithmetic helpers *)

None == << >>

Some(v) == << v >>

IsSome(o) == Len(o) = 1

UnwrapOr(o, d) == IF Len(o) = 1 THEN o[1] ELSE d

\* Rust's Option::or : self if it is Some, otherwise the argument.
OptionOr(o, other) == IF Len(o) = 1 THEN o ELSE other

Abs(x) == IF x < 0 THEN -x ELSE x

Min(a, b) == IF a < b THEN a ELSE b

Max(a, b) == IF a > b THEN a ELSE b

\* Division rounding toward zero (b > 0).
Quot(a, b) == IF a >= 0 THEN a \div b ELSE -((-a) \div b)

\* Smallest integer >= a / b, for a >= 0 and b > 0 (f64::ceil).
CeilDiv(a, b) == (a + b - 1) \div b

\* f32::clamp(-1.0, 1.0) on a fixed-point sample.
Clamp1(x) == IF x < -1000 THEN -1000 ELSE IF x > 1000 THEN 1000 ELSE x

\* (x as usize) for the fixed-point product num/1000 : the cast truncates
\* toward zero and saturates negative values to 0.
AsUsize(num) == IF num <= 0 THEN 0 ELSE num \div 1000

RECURSIVE SumSeq(_)
SumSeq(s) == IF s = << >> THEN 0 ELSE s[1] + SumSeq(Tail(s))

RECURSIVE MaxSeq(_, _)
MaxSeq(s, d) == IF s = << >> THEN d ELSE Max(s[1], MaxSeq(Tail(s), s[1]))

RECURSIVE Flatten(_)
Flatten(ss) == IF ss = << >> THEN << >> ELSE ss[1] \o Flatten(Tail(ss))

----------------------------------------------------------------------------
(* Constants of the program *)

SAMPLE_RATE == 24000

----------------------------------------------------------------------------
(* AudioBuffer *)

\* AudioBuffer::new : channels x length zeros.
AudioBuffer_new(channels, length, rate) ==
    [samples |-> [c \in 1..channels |-> [i \in 1..length |-> 0]],
     sample_rate |-> rate]

from_mono(data, rate) == [samples |-> << data >>, sample_rate |-> rate]

from_stereo(left, right, rate) == [samples |-> << left, right >>, sample_rate |-> rate]

num_channels(b) == Len(b.samples)

\* self.samples.first().map(|c| c.len()).unwrap_or(0)
length(b) == IF Len(b.samples) = 0 THEN 0 ELSE Len(b.samples[1])

\* AudioBuffer::silence : (duration_secs * sample_rate as f32) as usize zeros, mono.
silence(duration_secs, rate) == AudioBuffer_new(1, AsUsize(duration_secs * rate), rate)

\* One output sample of resample: linear interpolation at source position
\* i * ratio, with ratio = source_rate / target_rate (i is 0-based).
ResampleAt(src, i, source_rate, target_rate) ==
    LET pos_num == i * source_rate
        src_idx == pos_num \div target_rate
        rem     == pos_num % target_rate
        src_len == Len(src)
    IN  IF src_idx + 1 < src_len
        THEN Quot(src[src_idx + 1] * (target_rate - rem) + src[src_idx + 2] * rem,
                  target_rate)
        ELSE IF src_idx < src_len THEN src[src_idx + 1] ELSE 0

\* resample that interpolates but leaves the buffer labelled with its old rate.
resample_KeepRate(b, target_sample_rate) ==
    IF b.sample_rate = target_sample_rate
    THEN b
    ELSE LET new_length == CeilDiv(length(b) * target_sample_rate, b.sample_rate)
         IN  [samples |->
                 [c \in 1..num_channels(b) |->
                     [i \in 1..new_length |->
                         ResampleAt(b.samples[c], i - 1, b.sample_rate,
                                    target_sample_rate)]],
              sample_rate |-> b.sample_rate]

\* AudioBuffer::resample
resample(b, target_sample_rate) ==
    IF b.sample_rate = target_sample_rate
    THEN b
    ELSE LET new_length == CeilDiv(length(b) * target_sample_rate, b.sample_rate)
         IN  [samples |->
                 [c \in 1..num_channels(b) |->
                     [i \in 1..new_length |->
                         ResampleAt(b.samples[c], i - 1, b.sample_rate,
                                    target_sample_rate)]],
              sample_rate |-> target_sample_rate]

\* The first step of concat and merge: every buffer at the first one's rate.
ResampleAll(buffers) ==
    [k \in 1..Len(buffers) |-> resample(buffers[k], buffers[1].sample_rate)]

\* for ch in 0..num_channels { dst[offset + i] = src[i] } for one buffer.
ConcatWrite(result, buffer, offset, channels) ==
    [ch \in 1..channels |->
        LET src_data == buffer.samples[Min(ch, num_channels(buffer))]
        IN  [j \in 1..Len(result[ch]) |->
                IF j > offset /\ j <= offset + Len(src_data)
                THEN src_data[j - offset]
                ELSE result[ch][j]]]

\* ConcatAdvance that never moves: every buffer is written at the start.
ConcatAdvance_Stuck(offset, buffer) == offset

\* offset += buffer.length() after each buffer of the concat loop.
ConcatAdvance(offset, buffer) == offset + length(buffer)

RECURSIVE ConcatLoop(_, _, _, _, _)
ConcatLoop(result, resampled, k, offset, channels) ==
    IF k > Len(resampled)
    THEN result
    ELSE ConcatLoop(ConcatWrite(result, resampled[k], offset, channels),
                    resampled, k + 1, ConcatAdvance(offset, resampled[k]), channels)

\* AudioBuffer::concat
concat(buffers) ==
    IF buffers = << >>
    THEN AudioBuffer_new(1, 1, SAMPLE_RATE)
    ELSE LET target_sample_rate == buffers[1].sample_rate
             resampled    == ResampleAll(buffers)
             channels     == MaxSeq([k \in 1..Len(resampled) |->
                                        num_channels(resampled[k])], 1)
             total_length == SumSeq([k \in 1..Len(resampled) |->
                                        length(resampled[k])])
             result == AudioBuffer_new(channels, total_length, target_sample_rate)
         IN  [samples |-> ConcatLoop(result.samples, resampled, 1, 0, channels),
              sample_rate |-> target_sample_rate]

\* let mixed = dst[i] + sample; dst[i] = mixed.clamp(-1.0, 1.0)
MixSample(dst, sample) == Clamp1(dst + sample)

\* for ch in 0..num_channels { dst[i] = clamp(dst[i] + src[i]) } for one buffer.
MergeWrite(result, buffer, channels) ==
    [ch \in 1..channels |->
        LET src_data == buffer.samples[Min(ch, num_channels(buffer))]
        IN  [j \in 1..Len(result[ch]) |->
                IF j <= Len(src_data)
                THEN MixSample(result[ch][j], src_data[j])
                ELSE result[ch][j]]]

RECURSIVE MergeLoop(_, _, _, _)
MergeLoop(result, resampled, k, channels) ==
    IF k > Len(resampled)
    THEN result
    ELSE MergeLoop(MergeWrite(result, resampled[k], channels),
                   resampled, k + 1, channels)

\* AudioBuffer::merge
merge(buffers) ==
    IF buffers = << >>
    THEN AudioBuffer_new(1, 1, SAMPLE_RATE)
    ELSE LET target_sample_rate == buffers[1].sample_rate
             resampled  == ResampleAll(buffers)
             channels   == MaxSeq([k \in 1..Len(resampled) |->
                                      num_channels(resampled[k])], 1)
             max_length == MaxSeq([k \in 1..Len(resampled) |->
                                      length(resampled[k])], 0)
             result == AudioBuffer_new(channels, max_length, target_sample_rate)
         IN  [samples |-> MergeLoop(result.samples, resampled, 1, channels),
              sample_rate |-> target_sample_rate]

----------------------------------------------------------------------------
(* EffectOptions and presets *)

EffectFields == {"delay", "decay", "repeats", "hz", "offset", "amplitude", "fade_ms", "pan"}

\* EffectOptions::default() : every field None.
EffectOptions_default == [f \in EffectFields |-> None]

\* A record that gives the fields of `given` and leaves the others None.
Opts(given) ==
    [f \in EffectFields |-> IF f \in DOMAIN given THEN Some(given[f]) ELSE None]

\* serde_json::from_str::<Opts>(json) on the option payloads the scripts of
\* this model carry: Some(record) when the text is a JSON object whose known
\* fields have the declared types (unknown fields are ignored, fadeMs is the
\* JSON name of fade_ms), None when deserialisation fails.
serde_from_str(json) ==
    CASE json = "{}" -> Some(EffectOptions_default)
      [] json = "{\"delay\": 0.5, \"decay\": 0.3}" ->
            Some(Opts([delay |-> 500, decay |-> 300]))
      [] json = "{\"repeats\": 1}" -> Some(Opts([repeats |-> 1]))
      [] json = "{\"delay\": 0.2, \"echo\": true}" -> Some(Opts([delay |-> 200]))
      [] json = "{\"pan\": -1, \"fadeMs\": 500}" ->
            Some(Opts([pan |-> -1000, fade_ms |-> 500000]))
      [] json = "{\"hz\": 2, \"offset\": 1, \"amplitude\": 0.5}" ->
            Some(Opts([hz |-> 2000, offset |-> 1000, amplitude |-> 500]))
      [] json = "{\"fade_ms\": 5}" -> Some(EffectOptions_default)
      [] json = "{\"delay\": 0.5, \"repeats\": -1}" -> None
      [] json = "{delay: 0.5" -> None
      [] OTHER -> None

\* EffectOptions::from_json : unwrap_or_default, then field by field.
from_json(json) ==
    LET opts == UnwrapOr(serde_from_str(json), EffectOptions_default)
    IN  [f \in EffectFields |-> opts[f]]

\* MergeField with the precedence the wrong way round: the base wins.
MergeField_BaseWins(self, other, f) == OptionOr(self[f], other[f])

\* other.<field>.or(self.<field>) for one field.
MergeField(self, other, f) == OptionOr(other[f], self[f])

\* EffectOptions::merge : self is the base, other the override.
EffectOptions_merge(self, other) ==
    [f \in EffectFields |-> MergeField(self, other, f)]

get_binaural_presets ==
    [delta |-> Opts([hz |-> 400000, offset |-> 2000]),
     theta |-> Opts([hz |-> 400000, offset |-> 6000]),
     alpha |-> Opts([hz |-> 400000, offset |-> 10000]),
     beta  |-> Opts([hz |-> 400000, offset |-> 20000]),
     gamma |-> Opts([hz |-> 400000, offset |-> 40000])]

get_echo_presets ==
    [light  |-> Opts([delay |-> 100, decay |-> 300, repeats |-> 2]),
     medium |-> Opts([delay |-> 200, decay |-> 500, repeats |-> 3]),
     heavy  |-> Opts([delay |-> 200, decay |-> 600, repeats |-> 4])]

get_pan_presets ==
    [left  |-> Opts([pan |-> -1000]),
     right |-> Opts([pan |-> 1000])]

\* HashMap::get(name).cloned()
MapGet(map, key) == IF key \in DOMAIN map THEN Some(map[key]) ELSE None

\* ScriptToAudioContext::get_preset
get_preset(effect_name, preset_name) ==
    CASE effect_name = "echo" -> MapGet(get_echo_presets, preset_name)
      [] effect_name = "binaural" -> MapGet(get_binaural_presets, preset_name)
      [] effect_name = "pan" -> MapGet(get_pan_presets, preset_name)
      [] OTHER -> None

----------------------------------------------------------------------------
(* Effect engine *)

\* sin(2 pi num / den) in thousandths, by Bhaskara's rational approximation
\* 16 p (1 - p) / (5 - 4 p (1 - p)) of sin(pi p) on each half turn.
SinTurn(num, den) ==
    LET t    == num % den
        half == IF 2 * t <= den THEN 2 * t ELSE 2 * t - den
        p    == (half * 1000) \div den
        q    == p * (1000 - p)
        v    == (16 * q) \div (5000 - ((4 * q) \div 1000))
    IN  IF 2 * t <= den THEN v ELSE -v

\* decay.powi(r)
RECURSIVE Powi(_, _)
Powi(x, r) == IF r = 0 THEN 1000 ELSE Quot(x * Powi(x, r - 1), 1000)

\* EchoDelaySamples that rounds to the nearest sample instead of truncating.
EchoDelaySamples_Rounded(delay_seconds, rate) ==
    IF delay_seconds * rate <= 0 THEN 0 ELSE (delay_seconds * rate + 500) \div 1000

\* (delay_seconds * sample_rate as f32) as usize
EchoDelaySamples(delay_seconds, rate) == AsUsize(delay_seconds * rate)

\* buffer.length() + delay_samples * repeats
EchoLength(len, delay_samples, repeats) == len + delay_samples * repeats

\* The echoes of repeats r..repeats added onto out_data (no clamp yet).
RECURSIVE EchoAdd(_, _, _, _, _, _)
EchoAdd(out_data, in_data, r, repeats, decay, delay_samples) ==
    IF r > repeats
    THEN out_data
    ELSE LET attenuation == Powi(decay, r)
             offset == r * delay_samples
             next == [j \in 1..Len(out_data) |->
                        IF j > offset /\ j - offset <= Len(in_data)
                        THEN out_data[j] + Quot(in_data[j - offset] * attenuation, 1000)
                        ELSE out_data[j]]
         IN  EchoAdd(next, in_data, r + 1, repeats, decay, delay_samples)

apply_echo(buffer, options) ==
    LET rate          == buffer.sample_rate
        delay_seconds == UnwrapOr(options.delay, 250)
        decay         == UnwrapOr(options.decay, 600)
        repeats       == UnwrapOr(options.repeats, 3)
        delay_samples == EchoDelaySamples(delay_seconds, rate)
        new_length    == EchoLength(length(buffer), delay_samples, repeats)
    IN  [samples |->
            [ch \in 1..num_channels(buffer) |->
                LET in_data == buffer.samples[ch]
                    copied  == [j \in 1..new_length |->
                                   IF j <= Len(in_data) THEN in_data[j] ELSE 0]
                    echoed  == EchoAdd(copied, in_data, 1, repeats, decay, delay_samples)
                IN  [j \in 1..new_length |-> Clamp1(echoed[j])]],
         sample_rate |-> rate]

\* One tone sample of apply_binaural at 0-based index i, faded at both ends.
BinauralTone(freq, amplitude, i, len, fade_samples, rate) ==
    LET tone == Quot(amplitude * SinTurn(freq * i, 1000 * rate), 1000)
    IN  IF i < fade_samples
        THEN Quot(tone * i, fade_samples)
        ELSE IF i > len - fade_samples
             THEN Quot(tone * (len - i), fade_samples)
             ELSE tone

apply_binaural(buffer, options) ==
    LET rate      == buffer.sample_rate
        channels  == num_channels(buffer)
        len       == length(buffer)
        hz        == Max(UnwrapOr(options.hz, 200000), 1000)
        offset    == Max(UnwrapOr(options.offset, 4000), 0)
        amplitude == UnwrapOr(options.amplitude, 80)
        fade_ms   == UnwrapOr(options.fade_ms, 10000)
        fade_samples == AsUsize(Max(Quot(fade_ms, 1000) * rate, 1000))
        f_left    == hz - Quot(offset, 2)
        f_right   == hz + Quot(offset, 2)
        out_channels == IF channels = 1 THEN 2 ELSE channels
    IN  [samples |->
            [ch \in 1..out_channels |->
                LET in_data == buffer.samples[Min(ch, channels)]
                    freq    == IF ch = 1 THEN f_left ELSE f_right
                IN  [j \in 1..len |->
                        Clamp1(in_data[j]
                               + BinauralTone(freq, amplitude, j - 1, len,
                                              fade_samples, rate))]],
         sample_rate |-> rate]

apply_pan(buffer, options) ==
    LET len  == length(buffer)
        pan  == Clamp1(UnwrapOr(options.pan, 0))
        \* angle = (pan + 1) * pi/4 is (pan + 1)/8 of a turn; cos x = sin(x + pi/2)
        left_gain  == SinTurn(pan + 1000 + 2000, 8000)
        right_gain == SinTurn(pan + 1000, 8000)
        mono_samples ==
            IF num_channels(buffer) = 1
            THEN buffer.samples[1]
            ELSE [j \in 1..len |->
                    Quot((buffer.samples[1][j] + buffer.samples[2][j]) * 500, 1000)]
    IN  [samples |->
            << [j \in 1..len |-> Clamp1(Quot(mono_samples[j] * left_gain, 1000))],
               [j \in 1..len |-> Clamp1(Quot(mono_samples[j] * right_gain, 1000))] >>,
         sample_rate |-> buffer.sample_rate]

apply_volume(buffer, volume) ==
    [samples |->
        [ch \in 1..num_channels(buffer) |->
            [j \in 1..Len(buffer.samples[ch]) |->
                Clamp1(Quot(buffer.samples[ch][j] * volume, 1000))]],
     sample_rate |-> buffer.sample_rate]

\* ((min_silence_ms / 1000.0) * sample_rate as f32).max(1.0) as usize
TrimMinSamples(min_silence_ms, rate) ==
    AsUsize(Max(Quot(min_silence_ms, 1000) * rate, 1000))

\* Per-sample maximum of |x| across channels.
TrimAbsMax(buffer) ==
    [j \in 1..length(buffer) |->
        MaxSeq([ch \in 1..num_channels(buffer) |-> Abs(buffer.samples[ch][j])], 0)]

\* Peak of the window of min_samples samples starting at 0-based i.
TrimWindowMax(abs_max, i, min_samples) ==
    MaxSeq([j \in 1..Min(min_samples, Len(abs_max) - i) |-> abs_max[i + j]], 0)

\* The 0-based window starts whose peak exceeds the threshold.
TrimLoud(abs_max, threshold, min_samples) ==
    {i \in 0..Max(Len(abs_max) - min_samples, 0) :
        TrimWindowMax(abs_max, i, min_samples) > threshold}

\* find_start and find_end of trim_silence
TrimStart(abs_max, threshold, min_samples) ==
    LET loud == TrimLoud(abs_max, threshold, min_samples)
    IN  IF loud = {} THEN Len(abs_max)
        ELSE CHOOSE i \in loud : \A k \in loud : i <= k

TrimEnd(abs_max, threshold, min_samples) ==
    LET loud == TrimLoud(abs_max, threshold, min_samples)
    IN  IF loud = {} THEN 0
        ELSE (CHOOSE i \in loud : \A k \in loud : i >= k) + min_samples

\* trim_silence indexes in_data[i + start] for i < end - start: it panics
\* (index out of bounds) when end exceeds the input's length.
trim_silence_panics(buffer, threshold, min_silence_ms) ==
    LET min_samples == TrimMinSamples(min_silence_ms, buffer.sample_rate)
        abs_max == TrimAbsMax(buffer)
        start == TrimStart(abs_max, threshold, min_samples)
        end   == TrimEnd(abs_max, threshold, min_samples)
    IN  start < end /\ num_channels(buffer) > 0 /\ end > length(buffer)

\* trim_silence that returns an empty buffer when nothing is loud.
trim_silence_Empty(buffer, threshold, min_silence_ms) ==
    LET min_samples == TrimMinSamples(min_silence_ms, buffer.sample_rate)
        abs_max == TrimAbsMax(buffer)
        start == TrimStart(abs_max, threshold, min_samples)
        end   == TrimEnd(abs_max, threshold, min_samples)
    IN  IF start >= end
        THEN AudioBuffer_new(1, 0, buffer.sample_rate)
        ELSE [samples |->
                [ch \in 1..num_channels(buffer) |->
                    [j \in 1..(end - start) |-> buffer.samples[ch][j + start]]],
              sample_rate |-> buffer.sample_rate]

trim_silence(buffer, threshold, min_silence_ms) ==
    LET min_samples == TrimMinSamples(min_silence_ms, buffer.sample_rate)
        abs_max == TrimAbsMax(buffer)
        start == TrimStart(abs_max, threshold, min_samples)
        end   == TrimEnd(abs_max, threshold, min_samples)
    IN  IF start >= end
        THEN AudioBuffer_new(1, 1, buffer.sample_rate)
        ELSE [samples |->
                [ch \in 1..num_channels(buffer) |->
                    [j \in 1..(end - start) |-> buffer.samples[ch][j + start]]],
              sample_rate |-> buffer.sample_rate]

\* apply_effect that falls back to the echo for a name it does not know.
apply_effect_UnknownAsEcho(effect_name, buffer, options) ==
    CASE effect_name = "binaural" -> apply_binaural(buffer, options)
      [] effect_name = "pan" -> apply_pan(buffer, options)
      [] OTHER -> apply_echo(buffer, options)

\* ScriptToAudioContext::apply_effect
apply_effect(effect_name, buffer, options) ==
    CASE effect_name = "echo" -> apply_echo(buffer, options)
      [] effect_name = "binaural" -> apply_binaural(buffer, options)
      [] effect_name = "pan" -> apply_pan(buffer, options)
      [] OTHER -> buffer

----------------------------------------------------------------------------
(* The parsed script tree (kuchiki NodeRef) and attribute parsing *)

NoAttrs == [value |-> None, preset |-> None, options |-> None]

\* A text node.
Text(s) == [tag |-> "#text", attrs |-> NoAttrs, text |-> s, children |-> << >>]

\* A comment node: neither text nor element.
Comment == [tag |-> "#comment", attrs |-> NoAttrs, text |-> "", children |-> << >>]

\* An element with the given attributes and ordered children.
El(tag, attrs, children) ==
    [tag |-> tag, attrs |-> attrs, text |-> "", children |-> children]

\* An attribute map holding only value="v".
V(v) == [value |-> Some(v), preset |-> None, options |-> None]

\* str::to_lowercase on the element names of this model.
to_lowercase(name) ==
    CASE name = "VOICE" -> "voice"
      [] name = "Loop" -> "loop"
      [] OTHER -> name

\* str::trim on the text contents of this model.
trim(text) ==
    CASE text = "  " -> ""
      [] text = " hi\n" -> "hi"
      [] text = "\n" -> ""
      [] OTHER -> text

\* str::parse::<f32> on the attribute values of this model, in thousandths.
parse_f32(v) ==
    CASE v = "0" -> Some(0)
      [] v = "0.5" -> Some(500)
      [] v = "1.5" -> Some(1500)
      [] v = "2" -> Some(2000)
      [] v = "3" -> Some(3000)
      [] v = "0.25" -> Some(250)
      [] v = "-1" -> Some(-1000)
      [] OTHER -> None

\* str::parse::<usize> on the attribute values of this model: digits with
\* an optional leading plus sign; a sign, a fraction or a letter fails.
parse_usize(v) ==
    CASE v = "0" -> Some(0)
      [] v = "1" -> Some(1)
      [] v = "2" -> Some(2)
      [] v = "3" -> Some(3)
      [] v = "+2" -> Some(2)
      [] OTHER -> None

IsText(node) == node.tag = "#text"

IsElement(node) == node.tag \notin {"#text", "#comment"}

\* get_attr : None for a node that is not an element.
get_attr(node, name) == IF IsElement(node) THEN node.attrs[name] ELSE None

\* get_tag_name : the lowercased element name, None for other nodes.
get_tag_name(node) == IF IsElement(node) THEN Some(to_lowercase(node.tag)) ELSE None

\* count_nodes that counts the node and its children but not what is below.
count_nodes_Shallow(node) == 1 + Len(node.children)

\* count_nodes : 1 + the counts of the children.
RECURSIVE count_nodes(_)
count_nodes(node) ==
    1 + SumSeq([k \in 1..Len(node.children) |-> count_nodes(node.children[k])])

\* The node at a path of 1-based child indices below `node`.
RECURSIVE NodeAt(_, _)
NodeAt(node, path) ==
    IF path = << >> THEN node ELSE NodeAt(node.children[path[1]], Tail(path))

\* get_voices : voice key -> style file.
get_voices ==
    [female |-> "F1.json", female2 |-> "F2.json", male |-> "M1.json", male2 |-> "M2.json"]

----------------------------------------------------------------------------
(* preprocess_script.  A script text is the sequence of its characters. *)

\* str::replace : every non-overlapping match of `from`, left to right.
RECURSIVE replace(_, _, _)
replace(s, from, to) ==
    IF Len(s) < Len(from) THEN s
    ELSE IF SubSeq(s, 1, Len(from)) = from
         THEN to \o replace(SubSeq(s, Len(from) + 1, Len(s)), from, to)
         ELSE << s[1] >> \o replace(Tail(s), from, to)

\* make_tag_self_closing : the scan over the characters of `input`.  Scan(i)
\* is what the loop appends to result from character i on.
make_tag_self_closing(input, tag_name) ==
    LET closing_tag == << "<", "/" >> \o tag_name \o << ">" >>
        IsWs(c) == c \in {" ", "\n", "\t"}
        StartsWith(t, p) == Len(t) >= Len(p) /\ SubSeq(t, 1, Len(p)) = p
        EndsWith(t, p) == Len(t) >= Len(p) /\ SubSeq(t, Len(t) - Len(p) + 1, Len(t)) = p
        Has(t, p) == \E k \in 1..(Len(t) - Len(p) + 1) : SubSeq(t, k, k + Len(p) - 1) = p
        RECURSIVE SkipWs(_)
        SkipWs(t) == IF t # << >> /\ IsWs(t[1]) THEN SkipWs(Tail(t)) ELSE t
        RECURSIVE DropWs(_)
        DropWs(t) == IF t # << >> /\ IsWs(t[Len(t)])
                      THEN DropWs(SubSeq(t, 1, Len(t) - 1)) ELSE t
        Trimmed(t) == DropWs(SkipWs(t))
        \* the tag name ends before a whitespace, '>' or '/'
        RECURSIVE NameEnd(_)
        NameEnd(j) == IF j > Len(input) \/ IsWs(input[j]) \/ input[j] \in {">", "/"}
                      THEN j ELSE NameEnd(j + 1)
        \* the rest of the opening tag, up to and with its '>'
        RECURSIVE OpenEnd(_)
        OpenEnd(k) == IF k > Len(input) THEN k
                      ELSE IF input[k] = ">" THEN k + 1 ELSE OpenEnd(k + 1)
        RECURSIVE Lookahead(_, _)
        Lookahead(k, lookahead) ==
            IF k > Len(input) \/ Len(lookahead) >= Len(closing_tag) + 10
                \/ EndsWith(lookahead, closing_tag)
            THEN lookahead
            ELSE LET pushed == Append(lookahead, input[k])
                 IN  IF ~IsWs(input[k]) /\ ~StartsWith(SkipWs(pushed), << "<", "/" >>)
                     THEN pushed
                     ELSE Lookahead(k + 1, pushed)
        RECURSIVE Scan(_)
        Scan(i) ==
            IF i > Len(input) THEN << >>
            ELSE IF input[i] # "<" THEN << input[i] >> \o Scan(i + 1)
            ELSE LET j == NameEnd(i + 1)
                 IN  IF SubSeq(input, i, j - 1) # << "<" >> \o tag_name
                     THEN SubSeq(input, i, j - 1) \o Scan(j)
                     ELSE LET k == OpenEnd(j)
                              tag_content == SubSeq(input, i, k - 1)
                              lookahead == Lookahead(k, << >>)
                              kept ==
                                IF Trimmed(lookahead) = << >> \/ Trimmed(lookahead) = closing_tag
                                THEN IF EndsWith(tag_content, << "/", ">" >>) THEN << >>
                                     ELSE IF ~Has(lookahead, closing_tag) THEN closing_tag
                                          ELSE lookahead
                                ELSE lookahead
                          IN  tag_content \o kept \o Scan(k + Len(lookahead))
    IN  Scan(1)

\* preprocess_script that leaves the entities as they are.
preprocess_script_NoEntities(script) ==
    LET pause_tag == << "<", "p", "a", "u", "s", "e", " ", "v", "a", "l", "u", "e", "=",
                        "\"", "0", ".", "5", "\"", ">", "<", "/", "p", "a", "u", "s",
                        "e", ">" >>
        closed1 == make_tag_self_closing(script, << "p", "a", "u", "s", "e" >>)
        closed2 == make_tag_self_closing(closed1, << "s", "o", "u", "n", "d" >>)
        dots    == replace(closed2, << ".", ".", "." >>, << "." >>)
    IN  replace(dots, << "(", "p", "a", "u", "s", "e", ")" >>, pause_tag)

\* preprocess_script : the two tag passes, then the replacements in order.
preprocess_script(script) ==
    LET pause_tag == << "<", "p", "a", "u", "s", "e", " ", "v", "a", "l", "u", "e", "=",
                        "\"", "0", ".", "5", "\"", ">", "<", "/", "p", "a", "u", "s",
                        "e", ">" >>
        closed1 == make_tag_self_closing(script, << "p", "a", "u", "s", "e" >>)
        closed2 == make_tag_self_closing(closed1, << "s", "o", "u", "n", "d" >>)
        dots    == replace(closed2, << ".", ".", "." >>, << "." >>)
        pauses  == replace(dots, << "(", "p", "a", "u", "s", "e", ")" >>, pause_tag)
        quot    == replace(pauses, << "&", "q", "u", "o", "t", ";" >>, << "\"" >>)
        amp     == replace(quot, << "&", "a", "m", "p", ";" >>, << "&" >>)
        lt      == replace(amp, << "&", "l", "t", ";" >>, << "<" >>)
    IN  replace(lt, << "&", "g", "t", ";" >>, << ">" >>)

\* Script texts handed to preprocess_script.
PreprocessInputs ==
    {
      \* Hello... world
      << "H", "e", "l", "l", "o", ".", ".", ".", " ", "w", "o", "r", "l", "d" >>,
      \* a(pause)b
      << "a", "(", "p", "a", "u", "s", "e", ")", "b" >>,
      \* &amp; &lt; &gt;
      << "&", "a", "m", "p", ";", " ", "&", "l", "t", ";", " ", "&", "g", "t",
         ";" >>,
      \* say &quot;hi&quot;
      << "s", "a", "y", " ", "&", "q", "u", "o", "t", ";", "h", "i", "&", "q",
         "u", "o", "t", ";" >>,
      \* &amp;lt;
      << "&", "a", "m", "p", ";", "l", "t", ";" >>,
      \* <pause value="1">
      << "<", "p", "a", "u", "s", "e", " ", "v", "a", "l", "u", "e", "=", "\"",
         "1", "\"", ">" >>,
      \* <pause/> x
      << "<", "p", "a", "u", "s", "e", "/", ">", " ", "x" >>,
      \* <pause value="1"></pause>hi
      << "<", "p", "a", "u", "s", "e", " ", "v", "a", "l", "u", "e", "=", "\"",
         "1", "\"", ">", "<", "/", "p", "a", "u", "s", "e", ">", "h", "i" >>,
      \* <sound value="pop"> 
      << "<", "s", "o", "u", "n", "d", " ", "v", "a", "l", "u", "e", "=", "\"",
         "p", "o", "p", "\"", ">", " " >>,
      \* <pausex>
      << "<", "p", "a", "u", "s", "e", "x", ">" >>,
      \* wait.... ok
      << "w", "a", "i", "t", ".", ".", ".", ".", " ", "o", "k" >>,
      \* (the empty script)
      << >>,
      \* a&amp; &lt; &gt;b
      << "a", "&", "a", "m", "p", ";", " ", "&", "l", "t", ";", " ", "&", "g", "t",
         ";", "b" >>,
      \* a<b
      << "a", "<", "b" >>,
      \* (pause)...
      << "(", "p", "a", "u", "s", "e", ")", ".", ".", "." >>,
      \* <pause/> 
      << "<", "p", "a", "u", "s", "e", "/", ">", " " >> }

----------------------------------------------------------------------------
(* Bounds of the model *)

\* Longest waveform the synthesis engine returns.
MaxWavLen == 2

\* Most buffers handed to concat or merge at once.
MaxBufs == 3

\* Longest channel of a buffer handed to concat, merge or apply_echo.
MaxLen == 2

----------------------------------------------------------------------------
(* Inputs: scripts, engine outputs, sounds, files *)

RECURSIVE SeqsUpTo(_, _)
SeqsUpTo(S, n) ==
    IF n = 0 THEN {<< >>}
    ELSE LET shorter == SeqsUpTo(S, n - 1)
         IN  shorter \cup {Append(q, x) : q \in {r \in shorter : Len(r) = n - 1}, x \in S}

\* Waveforms TextToSpeech::call may return.
TtsWavs == SeqsUpTo({0, 1000}, MaxWavLen)

\* Sample rates a TTS model configuration may declare.
TtsRates == {4}

\* What decoding an embedded or on-disk WAV may give: the files are not part
\* of the source, so their rate and channel count are open.
SoundDecodes ==
    { from_mono(<< 500, -500, 500, -500 >>, 8),
      from_stereo(<< 300, 0 >>, << 0, -300 >>, 4) }

T1 == Text("hello")

T2 == Text(" hi\n")

Tws == Text("  ")

P0 == El("pause", V("0"), << >>)

P05 == El("pause", V("0.5"), << >>)

ScopeAttrs ==
    { << "voice", NoAttrs >>, << "voice", V("male") >>, << "voice", V("robot") >>,
      << "VOICE", V("female2") >>,
      << "speed", NoAttrs >>, << "speed", V("1.5") >>, << "speed", V("fast") >>,
      << "div", NoAttrs >> }

SetAttrs ==
    { << "voice", V("male") >>, << "voice", V("robot") >>,
      << "speed", V("1.5") >>, << "speed", V("3") >> }

Scope1 == { El(a[1], a[2], << T1 >>) : a \in ScopeAttrs }

Scope2 ==
    { El(a[1], a[2], kids) :
        a \in ScopeAttrs,
        kids \in UNION { { << x >>, << x, T2 >>, << T1, x >> } : x \in Scope1 } }

Scope3 ==
    { El(a[1], a[2], << El(b[1], b[2], << x, T1 >>) >>) :
        a \in SetAttrs, b \in SetAttrs, x \in Scope1 }

ScopeScripts ==
    UNION { { << x >>, << x, T1 >> } : x \in Scope1 \cup Scope2 \cup Scope3 }

LeafKids ==
    { << >>, << T1 >>, << Tws >>, << T1, P0 >>, << P05, T2 >>, << Comment, T1 >>,
      << El("sound", V("nokey"), << >>) >>, << El("sound", V("pop"), << T1 >>) >> }

PlainAttrs ==
    { << "pause", NoAttrs >>, << "pause", V("0") >>, << "pause", V("0.5") >>,
      << "pause", V("-1") >>, << "pause", V("soon") >>,
      << "sound", NoAttrs >>, << "sound", V("pop") >>, << "sound", V("nokey") >>,
      << "loop", NoAttrs >>, << "loop", V("0") >>, << "loop", V("2") >>,
      << "Loop", V("3") >>, << "loop", V("-1") >>, << "loop", V("2.5") >>,
      << "loop", V("+2") >>,
      << "volume", NoAttrs >>, << "volume", V("0.5") >>, << "volume", V("-1") >>,
      << "volume", V("loud") >>, << "volume", V("2") >>,
      << "part", NoAttrs >>, << "div", NoAttrs >>, << "overlay", NoAttrs >> }

EffectNames == { None, Some("echo"), Some("binaural"), Some("pan"), Some("reverb") }

PresetNames == { None, Some("light"), Some("heavy"), Some("alpha"), Some("left"), Some("nosuch") }

OptionTexts ==
    { None, Some("{}"), Some("{\"delay\": 0.5, \"decay\": 0.3}"), Some("{\"repeats\": 1}"),
      Some("{\"delay\": 0.2, \"echo\": true}"), Some("{\"pan\": -1, \"fadeMs\": 500}"),
      Some("{\"hz\": 2, \"offset\": 1, \"amplitude\": 0.5}"), Some("{\"fade_ms\": 5}"),
      Some("{\"delay\": 0.5, \"repeats\": -1}"), Some("{delay: 0.5") }

EffectAttrs ==
    { << "effect", [value |-> n, preset |-> p, options |-> o] >> :
        n \in EffectNames, p \in PresetNames, o \in OptionTexts }

Plain1 == { El(a[1], a[2], kids) : a \in PlainAttrs, kids \in LeafKids }

Effect1 ==
    { El(a[1], a[2], kids) : a \in EffectAttrs, kids \in { << >>, << T1 >>, << P05, T2 >> } }

Nested ==
    { El(a[1], a[2], << El(b[1], b[2], << T1 >>), P05 >>) :
        a \in { << "loop", V("2") >>, << "volume", V("0.5") >>, << "pause", V("0.5") >>,
                << "effect", [value |-> Some("echo"), preset |-> Some("light"),
                              options |-> None] >>,
                << "effect", [value |-> Some("pan"), preset |-> Some("left"),
                              options |-> None] >> },
        b \in { << "loop", V("2") >>, << "volume", V("2") >>, << "voice", V("male2") >>,
                << "effect", [value |-> Some("binaural"), preset |-> None,
                              options |-> None] >>,
                << "effect", [value |-> Some("pan"), preset |-> None,
                              options |-> None] >> } }

PartKids == { << >>, << T1 >>, << P05 >>, << T1, P05 >>, << Tws >> }

OverlayItems ==
    { El("part", NoAttrs, k) : k \in PartKids }
        \cup { T1, El("div", NoAttrs, << T1 >>), El("part", NoAttrs, << El("voice", V("male"), << T1 >>) >>) }

Overlays == { El("overlay", NoAttrs, kids) : kids \in SeqsUpTo(OverlayItems, 3) }

TransformScripts ==
    UNION { { << x >>, << x, T1 >> } : x \in Plain1 \cup Effect1 \cup Nested \cup Overlays }

\* The children of the <root> element the job wraps around the script.
Scripts == ScopeScripts \cup TransformScripts \cup { << >>, << T1, T2 >>, << P0, P0 >> }

\* ensure_model_files and ensure_voice_files : the files, in order.
model_files ==
    << "duration_predictor.onnx", "text_encoder.onnx", "vector_estimator.onnx",
       "vocoder.onnx", "tts.json", "unicode_indexer.json" >>

voice_files == << "F1.json", "F2.json", "M1.json", "M2.json" >>

AssetFiles == { model_files[k] : k \in 1..Len(model_files) }
                \cup { voice_files[k] : k \in 1..Len(voice_files) }

\* Local asset directories at the start of a job: nothing missing, one file
\* missing, or everything missing.
InitialFs ==
    { [f \in AssetFiles |-> "complete"], [f \in AssetFiles |-> "missing"] }
        \cup { [f \in AssetFiles |-> IF f = m THEN "missing" ELSE "complete"] : m \in AssetFiles }

\* The body length and the known content length (0 when unknown) of a
\* successful download: content_length(), when known, is the body's size.
DownloadSizes == { << 0, 0 >>, << 1, 0 >>, << 1, 1 >>, << 2, 2 >> }

\* How one download_file call may end.
DownloadOutcomes == { "ok", "send_err", "http_err", "create_err", "body_err", "write_err" }

----------------------------------------------------------------------------
VARIABLES
    pc,             \* where the job is
    fs,             \* asset file -> "missing" | "partial" | "complete"
    idx,            \* loop index of ensure_model_files / ensure_voice_files
    sample_rate,    \* ctx.sample_rate
    current_speed,  \* ctx.current_speed
    current_voice,  \* ctx.current_voice
    total_nodes,    \* ctx.total_nodes
    current_node,   \* ctx.current_node
    root,           \* the parsed <root> element
    stack,          \* the active process_node calls, innermost last
    audio,          \* the buffer script_to_audio returned, if it has
    emitted,        \* the progress events of the latest step
    tts_calls,      \* every generate_tts call so far
    effect_calls,   \* every apply_effect call so far
    trace,          \* node visits and returns, in order
    last_ret,       \* the latest process_node return, if any
    writes,         \* write_to_file calls so far
    failure,        \* why the job failed, if it has
    args,           \* buffers handed to a buffer operation
    opts,           \* options handed to an effect
    out             \* result of the latest buffer operation, if any

jobvars ==
    << pc, fs, idx, sample_rate, current_speed, current_voice, total_nodes,
       current_node, root, stack, audio, emitted, tts_calls, effect_calls, trace,
       last_ret, writes, failure >>

purevars == << args, opts, out >>

vars == << jobvars, purevars >>

----------------------------------------------------------------------------
(* Progress events *)

\* TtsProgressEvent; progress is the exact ratio num / den.
Event(stage, message, num, den) ==
    [stage |-> stage, message |-> message, num |-> num, den |-> den]

\* emit_progress without the 0.9 scale: 0.1 + current_node / total_nodes.
emit_progress_Unscaled(message, stage, node_count, total) ==
    IF total > 0
    THEN Event(stage, message, total + 10 * node_count, 10 * total)
    ELSE Event(stage, message, 0, 1)

\* emit_progress that reports the count of before the node was counted.
emit_progress_Stale(message, stage, node_count, total) ==
    IF total > 0
    THEN Event(stage, message, total + 9 * (node_count - 1), 10 * total)
    ELSE Event(stage, message, 0, 1)

\* ScriptToAudioContext::emit_progress : 0.1 + (current_node / total_nodes) * 0.9
\* when total_nodes > 0, else 0.
emit_progress(message, stage, node_count, total) ==
    IF total > 0
    THEN Event(stage, message, total + 9 * node_count, 10 * total)
    ELSE Event(stage, message, 0, 1)

----------------------------------------------------------------------------
(* Synthesis and sounds *)

\* get_voice_style : the style file of the key, F1.json for an unknown key.
get_voice_style(voice_key) == UnwrapOr(MapGet(get_voices, voice_key), "F1.json")

\* The speed handed to the engine: 0.75 + ((clamp(speed, 0.5, 2.0) - 0.5) / 1.5) * 0.5
EngineSpeed(speed) ==
    LET clamped == IF speed < 500 THEN 500 ELSE IF speed > 2000 THEN 2000 ELSE speed
        unit == Quot((clamped - 500) * 1000, 1500)
    IN  750 + Quot(unit * 500, 1000)

\* generate_tts after the engine returned wav: trim silence, reduce loudness.
generate_tts(wav, rate) ==
    apply_volume(trim_silence(from_mono(wav, rate), 2, 20000), 850)

\* The record of one generate_tts call (what the engine was asked).
TtsCall(path, text, voice, speed) ==
    [path |-> path, text |-> text, voice |-> voice, style |-> get_voice_style(voice),
     speed |-> speed, engine_speed |-> EngineSpeed(speed)]

\* get_embedded_sound : the keys of the embedded set.
EmbeddedKeys ==
    { "beep", "pop", "bubble_pop", "camera_shutter", "censor_beep", "heart_beat",
      "padlock", "snap" }

\* get_sound_effects : key -> file name.
get_sound_effects ==
    [beep |-> "beep_low_high.wav", pop |-> "pop.wav", bubble_pop |-> "bubble_pop.wav",
     camera_shutter |-> "camera_shutter.wav", censor_beep |-> "censor_beep.wav",
     heart_beat |-> "heart_beat.wav", padlock |-> "padlock.wav", snap |-> "snap.wav"]

\* fetch_sound_effect : Some(buffer at the job's rate) or None for Err.
\* decoded is what from_bytes / from_file gives for the key's audio (None
\* when decoding fails); in_effects_dir and in_resource_dir say whether the
\* key's file exists in those directories.
\* fetch_sound_effect that hands the decoded sound on at the file's own rate.
fetch_sound_effect_NoResample(effect_key, decoded, in_effects_dir, in_resource_dir, rate) ==
    IF effect_key \in EmbeddedKeys
    THEN decoded
    ELSE IF effect_key \notin DOMAIN get_sound_effects
         THEN None
         ELSE IF in_effects_dir \/ in_resource_dir THEN decoded ELSE None

fetch_sound_effect(effect_key, decoded, in_effects_dir, in_resource_dir, rate) ==
    LET loaded == IF decoded = None THEN None ELSE Some(resample(decoded[1], rate))
    IN  IF effect_key \in EmbeddedKeys
        THEN loaded
        ELSE IF effect_key \notin DOMAIN get_sound_effects
             THEN None
             ELSE IF in_effects_dir \/ in_resource_dir THEN loaded ELSE None

----------------------------------------------------------------------------
(* process_node *)

\* One active call: the node, the index of the next child, the segments
\* collected so far, the saved scope values, and the parts of an overlay.
\* kind is "root" for the loop of script_to_audio over the root's children,
\* "node" for a process_node call and "part" for the inner loop of an
\* overlay over one <part>.  entry_*, kid_rets and lookup are history: the
\* context at the call, what each child call returned, and the sound lookup
\* a `sound` element made (None if it made none).
Frame(node, kind, path, segments, speed, voice) ==
    [node |-> node, kind |-> kind, path |-> path, i |-> 1, segments |-> segments,
     prev_speed |-> speed, prev_voice |-> voice,
     entry_speed |-> speed, entry_voice |-> voice,
     parts |-> << >>, kid_rets |-> << >>, lookup |-> None]

Top == stack[Len(stack)]

TagOf(node) == UnwrapOr(get_tag_name(node), "")

HasNext == pc = "walk" /\ stack # << >> /\ Top.i <= Len(Top.node.children)

Child == Top.node.children[Top.i]

InOverlay == Top.kind = "node" /\ TagOf(Top.node) = "overlay"

\* Extend that puts the child's segments in front of the earlier ones.
Extend_Prepend(frame, ret) ==
    [frame EXCEPT !.i = @ + 1, !.segments = ret \o @, !.kid_rets = Append(@, ret)]

\* segments.extend(child_result) in the caller, and on to the next child.
Extend(frame, ret) ==
    [frame EXCEPT !.i = @ + 1, !.segments = @ \o ret, !.kid_rets = Append(@, ret)]

ReplaceTop(frame) == [stack EXCEPT ![Len(stack)] = frame]

\* A failure that is recorded but not returned: the job goes on.
FailAt_Continue(cause, at_node) ==
    /\ failure' = Some([cause |-> cause, at_node |-> at_node])
    /\ UNCHANGED pc

\* A fatal error (`?`, then map_err in generate_audio): the command returns
\* Err and nothing of the job runs after it.  at_node is history: the node
\* counter at the failure.
FailAt(cause, at_node) ==
    /\ pc' = "failed"
    /\ failure' = Some([cause |-> cause, at_node |-> at_node])

\* The `?` on a failed generate_tts: the error leaves process_node at once.
SynthFailed(outcome) == outcome = None

\* What process_node returns for a text node: nothing for blank text, else
\* the synthesized segment.
TextSegments(text, outcome, rate) ==
    IF text = "" THEN << >> ELSE << generate_tts(outcome[1], rate) >>

\* process_node on a text node (lines 1282-1296).
VisitText ==
    /\ HasNext /\ ~InOverlay /\ IsText(Child)
    /\ \E outcome \in {None} \cup {Some(w) : w \in TtsWavs} :
        LET text == trim(Child.text)
            path == Append(Top.path, Top.i)
            ret  == TextSegments(text, outcome, sample_rate)
        IN  /\ current_node' = current_node + 1
            /\ emitted' = << emit_progress("Processing script", "generate",
                                           current_node + 1, total_nodes) >>
            /\ tts_calls' = IF text = "" THEN tts_calls
                            ELSE Append(tts_calls,
                                        TtsCall(path, text, current_voice, current_speed))
            /\ IF text # "" /\ SynthFailed(outcome)
               THEN /\ FailAt("synthesis", current_node + 1)
                    /\ trace' = Append(trace, << "enter", path >>)
                    /\ UNCHANGED << stack, last_ret >>
               ELSE /\ stack' = ReplaceTop(Extend(Top, ret))
                    /\ trace' = trace \o << << "enter", path >>, << "exit", path >> >>
                    /\ last_ret' = Some([path |-> path, node |-> Child, ret |-> ret,
                                         kid_rets |-> << >>, parts |-> << >>,
                                         lookup |-> None,
                                         entry_speed |-> current_speed,
                                         entry_voice |-> current_voice,
                                         exit_speed |-> current_speed,
                                         exit_voice |-> current_voice])
                    /\ UNCHANGED << pc, failure >>
    /\ UNCHANGED << fs, idx, sample_rate, current_speed, current_voice, total_nodes,
                    root, audio, effect_calls, writes, purevars >>

\* "speed": ctx.current_speed = value.parse().unwrap_or(1.0) when the
\* attribute is present.
EnterSpeed(node, speed) ==
    LET value == get_attr(node, "value")
    IN  IF IsSome(value) THEN UnwrapOr(parse_f32(value[1]), 1000) ELSE speed

\* "voice": ctx.current_voice = value when the attribute is present.
EnterVoice(node, voice) ==
    LET value == get_attr(node, "value")
    IN  IF IsSome(value) THEN value[1] ELSE voice

\* PauseDuration whose default is no pause at all.
PauseDuration_ZeroDefault(node) ==
    LET value == get_attr(node, "value")
    IN  IF IsSome(value) THEN UnwrapOr(parse_f32(value[1]), 0) ELSE 0

\* "pause": get_attr("value").and_then(parse).unwrap_or(1.0)
PauseDuration(node) ==
    LET value == get_attr(node, "value")
    IN  IF IsSome(value) THEN UnwrapOr(parse_f32(value[1]), 1000) ELSE 1000

\* EntrySegments that stands a one-sample buffer in for a sound that could
\* not be fetched.
EntrySegments_Placeholder(node, fetched, rate) ==
    CASE TagOf(node) = "pause" -> << silence(PauseDuration(node), rate) >>
      [] TagOf(node) = "sound" ->
            IF IsSome(get_attr(node, "value"))
            THEN << IF IsSome(fetched) THEN fetched[1] ELSE AudioBuffer_new(1, 1, rate) >>
            ELSE << >>
      [] OTHER -> << >>

\* The segments a process_node call holds before its first child is visited.
EntrySegments(node, fetched, rate) ==
    CASE TagOf(node) = "pause" -> << silence(PauseDuration(node), rate) >>
      [] TagOf(node) = "sound" ->
            IF IsSome(get_attr(node, "value")) /\ IsSome(fetched)
            THEN << fetched[1] >> ELSE << >>
      [] OTHER -> << >>

\* process_node on an element or other non-text node, up to its first child
\* (lines 1282-1285 and the code of its tag before the loop over children).
EnterElement ==
    /\ HasNext /\ ~InOverlay /\ ~IsText(Child)
    /\ \E decoded \in {None} \cup {Some(b) : b \in SoundDecodes},
          in_effects \in BOOLEAN, in_resources \in BOOLEAN :
        LET node == Child
            tag  == TagOf(node)
            path == Append(Top.path, Top.i)
            key  == UnwrapOr(get_attr(node, "value"), "")
            fetched == fetch_sound_effect(key, decoded, in_effects, in_resources,
                                          sample_rate)
            looked == tag = "sound" /\ IsSome(get_attr(node, "value"))
            frame == [Frame(node, "node", path,
                            EntrySegments(node, fetched, sample_rate),
                            current_speed, current_voice)
                        EXCEPT !.lookup =
                            IF looked
                            THEN Some([key |-> key, decoded |-> decoded,
                                       in_effects_dir |-> in_effects,
                                       in_resource_dir |-> in_resources,
                                       fetched |-> fetched])
                            ELSE None]
        IN  /\ (~looked => decoded = None /\ ~in_effects /\ ~in_resources)
            /\ stack' = Append(stack, frame)
            /\ current_speed' = IF tag = "speed" THEN EnterSpeed(node, current_speed)
                                ELSE current_speed
            /\ current_voice' = IF tag = "voice" THEN EnterVoice(node, current_voice)
                                ELSE current_voice
            /\ trace' = Append(trace, << "enter", path >>)
    /\ current_node' = current_node + 1
    /\ emitted' = << emit_progress("Processing script", "generate",
                                   current_node + 1, total_nodes) >>
    /\ UNCHANGED << pc, fs, idx, sample_rate, total_nodes, root, audio, tts_calls,
                    effect_calls, last_ret, writes, failure, purevars >>

\* IsPart that takes every child of an overlay for a part.
IsPart_Any(node) == TRUE

\* if let Some(child_tag) = get_tag_name(&child) { if child_tag == "part" {
IsPart(node) == TagOf(node) = "part"

\* "overlay": a child that is not a <part> element is passed over.
OverlaySkip ==
    /\ HasNext /\ InOverlay /\ ~IsPart(Child)
    /\ stack' = ReplaceTop([Top EXCEPT !.i = @ + 1])
    /\ emitted' = << >>
    /\ UNCHANGED << pc, fs, idx, sample_rate, current_speed, current_voice,
                    total_nodes, current_node, root, audio, tts_calls, effect_calls,
                    trace, last_ret, writes, failure, purevars >>

\* "overlay": entering a <part> child (lines 1343-1347).
EnterPart ==
    /\ HasNext /\ InOverlay /\ IsPart(Child)
    /\ stack' = Append(stack, Frame(Child, "part", Append(Top.path, Top.i), << >>,
                                    current_speed, current_voice))
    /\ current_node' = current_node + 1
    /\ emitted' = << emit_progress("Processing overlay part", "generate",
                                   current_node + 1, total_nodes) >>
    /\ trace' = Append(trace, << "enter", Append(Top.path, Top.i) >>)
    /\ UNCHANGED << pc, fs, idx, sample_rate, current_speed, current_voice,
                    total_nodes, root, audio, tts_calls, effect_calls, last_ret,
                    writes, failure, purevars >>

\* if !part_segments.is_empty() { parts.push(concat(&part_segments)?) }
PartsPush(parts, part_segments) ==
    IF part_segments # << >> THEN Append(parts, concat(part_segments)) ELSE parts

\* "overlay": the end of a <part> child (lines 1351-1354).
ExitPart ==
    /\ pc = "walk" /\ stack # << >> /\ Top.kind = "part"
    /\ Top.i > Len(Top.node.children)
    /\ LET below == stack[Len(stack) - 1]
           after == [below EXCEPT !.i = @ + 1,
                                  !.parts = PartsPush(@, Top.segments),
                                  !.kid_rets = Append(@, Top.segments)]
       IN  stack' = [SubSeq(stack, 1, Len(stack) - 1) EXCEPT ![Len(stack) - 1] = after]
    /\ trace' = Append(trace, << "exit", Top.path >>)
    /\ emitted' = << >>
    /\ UNCHANGED << pc, fs, idx, sample_rate, current_speed, current_voice,
                    total_nodes, current_node, root, audio, tts_calls, effect_calls,
                    last_ret, writes, failure, purevars >>

\* "effect": the preset (if it resolves) merged with the parsed options.
EffectName(node) == UnwrapOr(get_attr(node, "value"), "")

EffectOptionsOf(node) ==
    LET preset_name  == get_attr(node, "preset")
        options_attr == UnwrapOr(get_attr(node, "options"), "{}")
        preset_opts  == IF IsSome(preset_name)
                        THEN get_preset(EffectName(node), preset_name[1])
                        ELSE None
        options      == UnwrapOr(preset_opts, EffectOptions_default)
    IN  EffectOptions_merge(options, from_json(options_attr))

\* "loop": get_attr("value").and_then(parse).unwrap_or(1)
LoopCount(node) ==
    LET value == get_attr(node, "value")
    IN  IF IsSome(value) THEN UnwrapOr(parse_usize(value[1]), 1) ELSE 1

\* "volume": get_attr("value").and_then(parse).unwrap_or(1.0).max(0.0)
VolumeOf(node) ==
    LET value == get_attr(node, "value")
    IN  Max(IF IsSome(value) THEN UnwrapOr(parse_f32(value[1]), 1000) ELSE 1000, 0)

\* LoopSegments with one iteration too many.
LoopSegments_OffByOne(loops, single_iteration) ==
    [k \in 1..(loops + 1) |-> single_iteration]

\* for _ in 0..loops { segments.push(single_iteration.clone()) }
LoopSegments(loops, single_iteration) == [k \in 1..loops |-> single_iteration]

\* OverlaySegments that joins the parts end to end instead of mixing them.
OverlaySegments_Concat(parts) == IF parts # << >> THEN << concat(parts) >> ELSE << >>

\* if !parts.is_empty() { segments.push(merge(&parts)?) }
OverlaySegments(parts) == IF parts # << >> THEN << merge(parts) >> ELSE << >>

\* EffectSegments that applies the effect to every child segment on its own.
EffectSegments_PerSegment(effect_name, child_segments, options) ==
    [k \in 1..Len(child_segments) |->
        apply_effect(effect_name, child_segments[k], options)]

\* if !child_segments.is_empty() { segments.push(apply_effect(concat(..))) }
EffectSegments(effect_name, child_segments, options) ==
    IF child_segments # << >>
    THEN << apply_effect(effect_name, concat(child_segments), options) >>
    ELSE << >>

\* What a process_node call returns once its children are done.
ExitSegments(frame) ==
    LET node == frame.node
        tag  == TagOf(node)
        child_segments == frame.segments
    IN  CASE tag = "overlay" -> OverlaySegments(frame.parts)
          [] tag = "effect" ->
                EffectSegments(EffectName(node), child_segments, EffectOptionsOf(node))
          [] tag = "loop" ->
                IF child_segments # << >>
                THEN LoopSegments(LoopCount(node), concat(child_segments))
                ELSE << >>
          [] tag = "volume" ->
                IF child_segments # << >>
                THEN << apply_volume(concat(child_segments), VolumeOf(node)) >>
                ELSE << >>
          [] OTHER -> child_segments

\* ExitSpeed without the restore: the override leaks to what follows.
ExitSpeed_NoRestore(frame, speed) == speed

\* ctx.current_speed = prev_speed at the end of "speed".
ExitSpeed(frame, speed) ==
    IF TagOf(frame.node) = "speed" THEN frame.prev_speed ELSE speed

\* ExitVoice without the restore.
ExitVoice_NoRestore(frame, voice) == voice

\* ctx.current_voice = prev_voice at the end of "voice".
ExitVoice(frame, voice) ==
    IF TagOf(frame.node) = "voice" THEN frame.prev_voice ELSE voice

\* The end of a process_node call on a non-text node: the code of its tag
\* after the loop over children, Ok(segments), and the caller's extend.
ExitElement ==
    /\ pc = "walk" /\ stack # << >> /\ Top.kind = "node"
    /\ Top.i > Len(Top.node.children)
    /\ LET ret   == ExitSegments(Top)
           below == stack[Len(stack) - 1]
           speed == ExitSpeed(Top, current_speed)
           voice == ExitVoice(Top, current_voice)
       IN  /\ stack' = [SubSeq(stack, 1, Len(stack) - 1)
                            EXCEPT ![Len(stack) - 1] = Extend(below, ret)]
           /\ current_speed' = speed
           /\ current_voice' = voice
           /\ effect_calls' =
                IF TagOf(Top.node) = "effect" /\ Top.segments # << >>
                THEN Append(effect_calls,
                            [path |-> Top.path, name |-> EffectName(Top.node),
                             options |-> EffectOptionsOf(Top.node),
                             input |-> concat(Top.segments)])
                ELSE effect_calls
           /\ last_ret' = Some([path |-> Top.path, node |-> Top.node, ret |-> ret,
                                kid_rets |-> Top.kid_rets, parts |-> Top.parts,
                                lookup |-> Top.lookup,
                                entry_speed |-> Top.entry_speed,
                                entry_voice |-> Top.entry_voice,
                                exit_speed |-> speed, exit_voice |-> voice])
    /\ trace' = Append(trace, << "exit", Top.path >>)
    /\ emitted' = << >>
    /\ UNCHANGED << pc, fs, idx, sample_rate, total_nodes, current_node, root, audio,
                    tts_calls, writes, failure, purevars >>

----------------------------------------------------------------------------
(* The job: generate_audio, ScriptToAudioContext::new, script_to_audio *)

Fail(cause) == FailAt(cause, current_node)

\* generate_audio up to the call of script_to_audio: the data directory is
\* resolved (or the command returns its error) and the start event is sent.
Start ==
    /\ pc = "init"
    /\ \E dir_ok \in BOOLEAN :
        IF dir_ok
        THEN /\ pc' = "models"
             /\ emitted' = << Event("start", "Starting audio generation", 0, 1) >>
             /\ UNCHANGED failure
        ELSE /\ Fail("app_data_dir")
             /\ emitted' = << >>
    /\ UNCHANGED << fs, idx, sample_rate, current_speed, current_voice, total_nodes,
                    current_node, root, stack, audio, tts_calls, effect_calls, trace,
                    last_ret, writes, purevars >>

\* download_file : what is at the path afterwards.  The file is created
\* before the body is read, so a failure after File::create leaves it.
DownloadedFile(before, outcome) ==
    CASE outcome = "ok" -> "complete"
      [] outcome \in {"body_err", "write_err"} -> "partial"
      [] OTHER -> before

\* download_file : the "Downloaded" event of a successful download.
DownloadedEvent(file, downloaded, total_size) ==
    IF total_size > 0
    THEN Event("download", "Downloaded", downloaded, total_size)
    ELSE Event("download", "Downloaded", 1, 1)

\* EnsureFile that fetches the file whether or not it is there.
EnsureFile_Refetch(files, announce, next_pc) ==
    LET file == files[idx + 1]
    IN  \E outcome \in DownloadOutcomes, size \in DownloadSizes :
            /\ fs' = [fs EXCEPT ![file] = DownloadedFile(@, outcome)]
            /\ IF outcome = "ok"
               THEN /\ idx' = IF idx + 1 = Len(files) THEN 0 ELSE idx + 1
                    /\ pc' = IF idx + 1 = Len(files) THEN next_pc ELSE pc
                    /\ emitted' = << Event("download", announce, idx, Len(files)),
                                     DownloadedEvent(file, size[1], size[2]) >>
                    /\ UNCHANGED failure
               ELSE /\ Fail("download")
                    /\ size = << 0, 0 >>
                    /\ emitted' = << Event("download", announce, idx, Len(files)) >>
                    /\ UNCHANGED idx

\* One iteration of the loop of ensure_model_files / ensure_voice_files over
\* `files`, then on to `next_pc` after the last file.
EnsureFile(files, announce, next_pc) ==
    LET file == files[idx + 1]
    IN  IF fs[file] # "missing"
        THEN /\ idx' = IF idx + 1 = Len(files) THEN 0 ELSE idx + 1
             /\ pc' = IF idx + 1 = Len(files) THEN next_pc ELSE pc
             /\ emitted' = << >>
             /\ UNCHANGED << fs, failure >>
        ELSE \E outcome \in DownloadOutcomes, size \in DownloadSizes :
                /\ fs' = [fs EXCEPT ![file] = DownloadedFile(@, outcome)]
                /\ IF outcome = "ok"
                   THEN /\ idx' = IF idx + 1 = Len(files) THEN 0 ELSE idx + 1
                        /\ pc' = IF idx + 1 = Len(files) THEN next_pc ELSE pc
                        /\ emitted' = << Event("download", announce, idx, Len(files)),
                                         DownloadedEvent(file, size[1], size[2]) >>
                        /\ UNCHANGED failure
                   ELSE /\ Fail("download")
                        /\ size = << 0, 0 >>
                        /\ emitted' = << Event("download", announce, idx, Len(files)) >>
                        /\ UNCHANGED idx

EnsureModelFile ==
    /\ pc = "models"
    /\ EnsureFile(model_files, "Downloading model", "voices")
    /\ UNCHANGED << sample_rate, current_speed, current_voice, total_nodes,
                    current_node, root, stack, audio, tts_calls, effect_calls, trace,
                    last_ret, writes, purevars >>

EnsureVoiceFile ==
    /\ pc = "voices"
    /\ EnsureFile(voice_files, "Downloading voice", "load")
    /\ UNCHANGED << sample_rate, current_speed, current_voice, total_nodes,
                    current_node, root, stack, audio, tts_calls, effect_calls, trace,
                    last_ret, writes, purevars >>

\* The rest of ScriptToAudioContext::new : load the engine, build the context.
LoadTts ==
    /\ pc = "load"
    /\ \E loaded \in {None} \cup {Some(r) : r \in TtsRates} :
        IF IsSome(loaded)
        THEN /\ pc' = "parse"
             /\ sample_rate' = loaded[1]
             /\ current_speed' = 1000
             /\ current_voice' = "female"
             /\ total_nodes' = 0
             /\ current_node' = 0
             /\ UNCHANGED failure
        ELSE /\ Fail("load")
             /\ UNCHANGED << sample_rate, current_speed, current_voice, total_nodes,
                             current_node >>
    /\ emitted' = << >>
    /\ UNCHANGED << fs, idx, root, stack, audio, tts_calls, effect_calls, trace,
                    last_ret, writes, purevars >>

\* script_to_audio from the parse to the start of the walk: the script's
\* nodes become the children of <root>, the nodes are counted once.
Parse(scripts) ==
    /\ pc = "parse"
    /\ \E script \in scripts :
        LET r == El("root", NoAttrs, script)
        IN  /\ root' = r
            /\ total_nodes' = count_nodes(r)
            /\ current_node' = 0
            /\ stack' = << Frame(r, "root", << >>, << >>, current_speed, current_voice) >>
    /\ pc' = "walk"
    /\ emitted' = << >>
    /\ UNCHANGED << fs, idx, sample_rate, current_speed, current_voice, audio,
                    tts_calls, effect_calls, trace, last_ret, writes, failure,
                    purevars >>

\* The buffer script_to_audio returns for the collected segments.
FinalBuffer(audio_segments, rate) ==
    IF audio_segments = << >>
    THEN AudioBuffer_new(1, 1, rate)
    ELSE concat(audio_segments)

\* script_to_audio after the last child of <root> (lines 1502-1507).
Assemble ==
    /\ pc = "walk" /\ stack # << >> /\ Top.kind = "root"
    /\ Top.i > Len(Top.node.children)
    /\ audio' = Some(FinalBuffer(Top.segments, sample_rate))
    /\ stack' = << >>
    /\ pc' = "write"
    /\ emitted' = << >>
    /\ UNCHANGED << fs, idx, sample_rate, current_speed, current_voice, total_nodes,
                    current_node, root, tts_calls, effect_calls, trace, last_ret,
                    writes, failure, purevars >>

\* generate_audio after script_to_audio returned Ok: the write event, the
\* write, and on success the complete event.
WriteFile ==
    /\ pc = "write"
    /\ writes' = writes + 1
    /\ \E write_ok \in BOOLEAN :
        IF write_ok
        THEN /\ pc' = "done"
             /\ emitted' = << Event("write", "Writing audio file", 99, 100),
                              Event("complete", "Audio generation complete", 1, 1) >>
             /\ UNCHANGED failure
        ELSE /\ Fail("write")
             /\ emitted' = << Event("write", "Writing audio file", 99, 100) >>
    /\ UNCHANGED << fs, idx, sample_rate, current_speed, current_voice, total_nodes,
                    current_node, root, stack, audio, tts_calls, effect_calls, trace,
                    last_ret, purevars >>

\* The state before generate_audio is called; the context fields hold what
\* ScriptToAudioContext::new gives them.
JobFields ==
    /\ idx = 0
    /\ sample_rate = 0
    /\ current_speed = 1000
    /\ current_voice = "female"
    /\ total_nodes = 0
    /\ current_node = 0
    /\ root = El("root", NoAttrs, << >>)
    /\ stack = << >>
    /\ audio = None
    /\ emitted = << >>
    /\ tts_calls = << >>
    /\ effect_calls = << >>
    /\ trace = << >>
    /\ last_ret = None
    /\ writes = 0
    /\ failure = None

Init ==
    /\ pc = "init"
    /\ fs \in InitialFs
    /\ JobFields
    /\ args = << >>
    /\ opts = EffectOptions_default
    /\ out = None

Next ==
    \/ Start
    \/ EnsureModelFile
    \/ EnsureVoiceFile
    \/ LoadTts
    \/ Parse(Scripts)
    \/ VisitText
    \/ EnterElement
    \/ OverlaySkip
    \/ EnterPart
    \/ ExitPart
    \/ ExitElement
    \/ Assemble
    \/ WriteFile

\* One job, from the command to its result.
Spec == Init /\ [][Next]_vars

----------------------------------------------------------------------------
(* The buffer operations on their own: any list of buffers, any options *)

\* Buffers handed to the operations: every mono buffer at rate 4 with up to
\* MaxLen samples, and buffers of other shapes and rates.
InputBuffers ==
    { from_mono(w, 4) : w \in SeqsUpTo({-1000, 1000}, MaxLen) }
        \cup { from_stereo(<< 600, -200 >>, << -600, 1000 >>, 4),
               from_mono(<< 1000, 0, -1000 >>, 8),
               from_stereo(<< 400 >>, << -800 >>, 2) }

\* Echo options: each field absent or one of a few values.
EchoOptions ==
    { [EffectOptions_default EXCEPT !.delay = d, !.decay = c, !.repeats = r] :
        d \in { None, Some(0), Some(100), Some(200), Some(250), Some(500), Some(600),
                Some(-1000) },
        c \in { None, Some(500) },
        r \in { None, Some(0), Some(1), Some(2) } }

PushBuffer ==
    /\ pc = "pure" /\ out = None /\ Len(args) < MaxBufs
    /\ \E b \in InputBuffers : args' = Append(args, b)
    /\ UNCHANGED << jobvars, opts, out >>

CallConcat ==
    /\ pc = "pure" /\ out = None
    /\ out' = Some([op |-> "concat", result |-> concat(args)])
    /\ UNCHANGED << jobvars, args, opts >>

CallMerge ==
    /\ pc = "pure" /\ out = None
    /\ out' = Some([op |-> "merge", result |-> merge(args)])
    /\ UNCHANGED << jobvars, args, opts >>

CallEcho ==
    /\ pc = "pure" /\ out = None /\ Len(args) = 1
    /\ \E o \in EchoOptions :
        /\ opts' = o
        /\ out' = Some([op |-> "echo", result |-> apply_echo(args[1], o)])
    /\ UNCHANGED << jobvars, args >>

\* resample of one buffer to one of a few target rates.
CallResample ==
    /\ pc = "pure" /\ out = None /\ Len(args) = 1
    /\ \E target_sample_rate \in {1, 2, 3, 4, 8} :
        out' = Some([op |-> "resample", target |-> target_sample_rate,
                     result |-> resample(args[1], target_sample_rate)])
    /\ UNCHANGED << jobvars, args, opts >>

PureInit ==
    /\ pc = "pure"
    /\ fs = [f \in AssetFiles |-> "complete"]
    /\ JobFields
    /\ args = << >>
    /\ opts = EffectOptions_default
    /\ out = None

\* Buffers handed to trim_silence: quiet, loud and mixed ones, one with no
\* samples and one with no channel.
TrimBuffers ==
    { from_mono(w, 4) : w \in SeqsUpTo({0, -2, 5}, MaxLen + 1) }
        \cup { from_stereo(<< 1, 0 >>, << -2, 2 >>, 4),
               from_stereo(<< 0, 5 >>, << 0, 0 >>, 4),
               [samples |-> << >>, sample_rate |-> 4] }

\* trim_silence applied to one buffer; the call panics where the code
\* indexes past the end of the input.
CallTrim ==
    /\ pc = "pure" /\ out = None /\ args = << >>
    /\ \E b \in TrimBuffers, threshold \in {2, 1000},
          min_silence_ms \in {20000, 500000, 1000000} :
        LET panics == trim_silence_panics(b, threshold, min_silence_ms)
        IN  out' = Some([op |-> "trim", input |-> b, threshold |-> threshold,
                         min_silence_ms |-> min_silence_ms, panicked |-> panics,
                         result |-> IF panics THEN "panic"
                                    ELSE trim_silence(b, threshold, min_silence_ms)])
    /\ UNCHANGED << jobvars, args, opts >>

\* preprocess_script applied to one script text.
CallPreprocess ==
    /\ pc = "pure" /\ out = None /\ args = << >>
    /\ \E script \in PreprocessInputs :
        out' = Some([op |-> "preprocess", input |-> script,
                     result |-> preprocess_script(script)])
    /\ UNCHANGED << jobvars, args, opts >>

PureNext ==
    \/ PushBuffer \/ CallConcat \/ CallMerge \/ CallEcho
    \/ CallPreprocess \/ CallTrim \/ CallResample

SpecBuffers == PureInit /\ [][PureNext]_vars

----------------------------------------------------------------------------
(* Properties *)

Returned == last_ret # None

Ret == last_ret[1]

\* C1: when process_node returns Ok for a voice or speed element, the
\* context's current_voice and current_speed are what they were just before
\* that call.
C1_ScopeRestored ==
    (Returned /\ TagOf(Ret.node) \in {"voice", "speed"})
        => /\ Ret.exit_voice = Ret.entry_voice
           /\ Ret.exit_speed = Ret.entry_speed

\* A voice element that overrode the voice for a synthesized child has returned.
C1_Witness ==
    /\ Returned /\ TagOf(Ret.node) = "voice"
    /\ IsSome(Ret.node.attrs.value)
    /\ Ret.node.attrs.value[1] # Ret.entry_voice
    /\ Ret.ret # << >>
    /\ \E k \in 1..Len(tts_calls) :
        /\ tts_calls[k].voice = Ret.node.attrs.value[1]
        /\ SubSeq(tts_calls[k].path, 1, Len(Ret.path)) = Ret.path

\* The voice in force at the node at `path` below `node`: the value of the
\* nearest enclosing voice element that has a value attribute, else `voice`.
RECURSIVE VoiceAt(_, _, _)
VoiceAt(node, path, voice) ==
    IF path = << >> THEN voice
    ELSE LET here == IF TagOf(node) = "voice" /\ IsSome(node.attrs.value)
                     THEN node.attrs.value[1] ELSE voice
         IN  IF Len(path) = 1 THEN here
             ELSE VoiceAt(node.children[path[1]], Tail(path), here)

\* The speed of a speed element: its value as a number, 1.0 if it is none.
SpeedValue(v) ==
    CASE v = "1.5" -> 1500
      [] v = "3" -> 3000
      [] OTHER -> 1000

\* The speed in force at the node at `path` below `node`.
RECURSIVE SpeedAt(_, _, _)
SpeedAt(node, path, speed) ==
    IF path = << >> THEN speed
    ELSE LET here == IF TagOf(node) = "speed" /\ IsSome(node.attrs.value)
                     THEN SpeedValue(node.attrs.value[1]) ELSE speed
         IN  IF Len(path) = 1 THEN here
             ELSE SpeedAt(node.children[path[1]], Tail(path), here)

\* C2: every non-blank text node the walk evaluates is synthesized, and every
\* synthesis call is for such a node and uses the voice of the node's nearest
\* enclosing voice element with a value and the speed of its nearest
\* enclosing speed element with a value, "female" and 1.0 when there is
\* none, at any nesting depth.
C2_NearestScope ==
    /\ \A t \in 1..Len(trace) :
        LET node == NodeAt(root, trace[t][2])
        IN  (trace[t][1] = "enter" /\ IsText(node) /\ trim(node.text) # "")
                => \E k \in 1..Len(tts_calls) :
                    /\ tts_calls[k].path = trace[t][2]
                    /\ tts_calls[k].text = trim(node.text)
    /\ \A k \in 1..Len(tts_calls) :
        LET call == tts_calls[k]
            node == NodeAt(root, call.path)
        IN  /\ IsText(node) /\ call.text # ""
            /\ call.voice = VoiceAt(root, call.path, "female")
            /\ call.speed = SpeedAt(root, call.path, 1000)

\* A text three levels down was synthesized with an overridden voice and an
\* overridden speed, and a later text outside both with the defaults.
C2_Witness ==
    \E k \in 1..Len(tts_calls), m \in 1..Len(tts_calls) :
        /\ k < m
        /\ Len(tts_calls[k].path) >= 3
        /\ tts_calls[k].voice = "male" /\ tts_calls[k].speed = 1500
        /\ Len(tts_calls[m].path) = 1
        /\ tts_calls[m].voice = "female" /\ tts_calls[m].speed = 1000

Stages(events) == { events[k].stage : k \in 1..Len(events) }

\* The top-level nodes of the script whose process_node call has returned.
TopLevelDone == { k \in 1..Len(root.children) : \E t \in 1..Len(trace) :
                                                    trace[t] = << "exit", << k >> >> }

\* C3: a failed synthesis or download makes the job fail with no further
\* node evaluated and no write attempted; the output file is written at most
\* once, only after every top-level node was evaluated and the final buffer
\* assembled, exactly once in a finished job; and 'complete' is emitted only
\* when that write succeeded.
C3_FatalFailure ==
    /\ (failure # None /\ failure[1].cause \in {"synthesis", "download"})
        => /\ pc = "failed"
           /\ writes = 0
           /\ audio = None
           /\ current_node = failure[1].at_node
           /\ "complete" \notin Stages(emitted)
           /\ (failure[1].cause = "download" => current_node = 0 /\ trace = << >>)
    /\ writes <= 1
    /\ writes = 1 => /\ audio # None
                     /\ stack = << >>
                     /\ TopLevelDone = 1..Len(root.children)
    /\ "complete" \in Stages(emitted) => pc = "done" /\ writes = 1 /\ failure = None
    /\ pc = "done" => writes = 1 /\ "complete" \in Stages(emitted)

\* Synthesis failed while nodes of the script were still to be evaluated.
C3_Witness ==
    /\ failure # None
    /\ failure[1].cause = "synthesis"
    /\ tts_calls # << >>
    /\ Len(tts_calls) >= 2
    /\ current_node < total_nodes - 1
    /\ writes = 0

\* Document order of paths: an ancestor before its descendants, an earlier
\* sibling's subtree before a later sibling's.
RECURSIVE PathBefore(_, _)
PathBefore(p, q) ==
    IF p = << >> THEN q # << >>
    ELSE IF q = << >> THEN FALSE
         ELSE IF p[1] # q[1] THEN p[1] < q[1]
              ELSE PathBefore(Tail(p), Tail(q))

IsBelow(q, p) == Len(q) > Len(p) /\ SubSeq(q, 1, Len(p)) = p

KnownTags == {"speed", "voice", "pause", "overlay", "sound", "effect", "loop", "volume"}

\* C4: nodes are entered in document order; once a node's call has returned
\* (its transform applied) nothing below it is evaluated any more, and by
\* then every child of a node other than an overlay has returned; a
\* pass-through element returns its children's segment lists joined in
\* document order.
C4_DocumentOrder ==
    /\ \A a \in 1..Len(trace), b \in 1..Len(trace) :
        (a < b /\ trace[a][1] = "enter" /\ trace[b][1] = "enter")
            => PathBefore(trace[a][2], trace[b][2])
    /\ \A a \in 1..Len(trace), b \in 1..Len(trace) :
        (a < b /\ trace[a][1] = "exit") => ~IsBelow(trace[b][2], trace[a][2])
    /\ (Returned /\ ~IsText(Ret.node) /\ TagOf(Ret.node) # "overlay")
        => /\ Len(Ret.kid_rets) = Len(Ret.node.children)
           /\ \A k \in 1..Len(Ret.node.children) :
                \E t \in 1..Len(trace) : trace[t] = << "exit", Append(Ret.path, k) >>
    /\ (Returned /\ ~IsText(Ret.node) /\ TagOf(Ret.node) \notin KnownTags)
        => Ret.ret = Flatten(Ret.kid_rets)

\* A pass-through element returned whose two children gave different,
\* non-empty segment lists.
C4_Witness ==
    /\ Returned /\ TagOf(Ret.node) = "div"
    /\ Len(Ret.kid_rets) = 2
    /\ Ret.kid_rets[1] # << >> /\ Ret.kid_rets[2] # << >>
    /\ Ret.kid_rets[1] # Ret.kid_rets[2]
    /\ Len(Ret.ret) >= 2

NonEmpty(q) == q # << >>

SegmentsLength(segs) == SumSeq([k \in 1..Len(segs) |-> length(segs[k])])

\* C6 as claimed: an overlay always returns exactly one segment, the mix of
\* its parts' concatenated children, as long as the longest of them.
C6_OverlayAlwaysOneSegment ==
    (Returned /\ TagOf(Ret.node) = "overlay")
        => /\ Len(Ret.ret) = 1
           /\ length(Ret.ret[1])
                = MaxSeq([k \in 1..Len(Ret.kid_rets) |-> SegmentsLength(Ret.kid_rets[k])], 0)

\* C6, amended: an overlay with at least one part whose children produced a
\* segment returns exactly one segment, the merge of one concatenated buffer
\* per such part, as long as the longest of them; an overlay with no such
\* part returns no segment.
C6_Overlay ==
    (Returned /\ TagOf(Ret.node) = "overlay")
        => LET live == SelectSeq(Ret.kid_rets, NonEmpty)
               bufs == [k \in 1..Len(live) |-> concat(live[k])]
           IN  IF live = << >>
               THEN Ret.ret = << >>
               ELSE /\ Len(Ret.ret) = 1
                    /\ Ret.ret[1] = merge(bufs)
                    /\ length(Ret.ret[1])
                        = MaxSeq([k \in 1..Len(live) |-> SegmentsLength(live[k])], 0)

\* An overlay returned the mix of two parts of different lengths.
C6_Witness ==
    /\ Returned /\ TagOf(Ret.node) = "overlay"
    /\ Len(Ret.parts) >= 2
    /\ length(Ret.parts[1]) # length(Ret.parts[2])
    /\ Len(Ret.ret) = 1
    /\ length(Ret.ret[1]) > 1

\* The iteration count of a loop element, by its value attribute.
C7_Count(value) ==
    CASE value = None -> 1
      [] value = Some("0") -> 0
      [] value \in {Some("2"), Some("+2")} -> 2
      [] value = Some("3") -> 3
      [] OTHER -> 1

\* C7: a loop with value n whose children produced a segment returns n
\* segments, each the concatenation of the children's segments and as long as
\* all of them together; n is 1 for a missing or unparsable value.
C7_Loop ==
    (Returned /\ TagOf(Ret.node) = "loop" /\ Flatten(Ret.kid_rets) # << >>)
        => LET segs == Flatten(Ret.kid_rets)
           IN  /\ Len(Ret.ret) = C7_Count(Ret.node.attrs.value)
               /\ \A k \in 1..Len(Ret.ret) :
                    /\ Ret.ret[k] = concat(segs)
                    /\ length(Ret.ret[k]) = SegmentsLength(segs)

\* A loop of two returned two segments made of two child segments.
C7_Witness ==
    /\ Returned /\ TagOf(Ret.node) = "loop"
    /\ Ret.node.attrs.value = Some("2")
    /\ Len(Flatten(Ret.kid_rets)) = 2
    /\ Len(Ret.ret) = 2
    /\ length(Ret.ret[1]) >= 2

\* C8: the options an effect element applies are, field by field, the JSON
\* option where the JSON gives the field, else the named preset's value, else
\* absent; echo with preset light and no options applies 0.1, 0.3, 2.
C8_EffectOptions ==
    \A k \in 1..Len(effect_calls) :
        LET call == effect_calls[k]
            node == NodeAt(root, call.path)
            explicit == from_json(UnwrapOr(node.attrs.options, "{}"))
            preset == IF IsSome(node.attrs.preset)
                      THEN get_preset(call.name, node.attrs.preset[1])
                      ELSE None
        IN  /\ call.name = UnwrapOr(node.attrs.value, "")
            /\ \A f \in EffectFields :
                call.options[f] =
                    IF IsSome(explicit[f]) THEN explicit[f]
                    ELSE IF IsSome(preset) /\ IsSome(preset[1][f]) THEN preset[1][f]
                         ELSE None
            /\ (node.attrs = [value |-> Some("echo"), preset |-> Some("light"),
                              options |-> None])
                => call.options = Opts([delay |-> 100, decay |-> 300, repeats |-> 2])

\* An echo with preset light and an explicit repeats of 1 was applied: the
\* explicit field overrides the preset's, the preset's delay stays.
C8_Witness ==
    \E k \in 1..Len(effect_calls) :
        LET node == NodeAt(root, effect_calls[k].path)
        IN  /\ node.attrs = [value |-> Some("echo"), preset |-> Some("light"),
                             options |-> Some("{\"repeats\": 1}")]
            /\ effect_calls[k].options.repeats = Some(1)
            /\ effect_calls[k].options.delay = Some(100)

Called(op) == out # None /\ out[1].op = op

Result == out[1].result

\* The arguments of concat and merge at the first one's rate.
Reconciled == [k \in 1..Len(args) |-> resample(args[k], args[1].sample_rate)]

\* The sample of reconciled buffer k for output channel ch at 1-based j,
\* 0 past the buffer's end.
SampleOf(k, ch, j) ==
    IF j <= length(Reconciled[k])
    THEN Reconciled[k].samples[Min(ch, num_channels(Reconciled[k]))][j]
    ELSE 0

\* C5 as claimed: every sample of merge's result is the sum of all inputs'
\* samples at that index clamped once to [-1,1], for any number of inputs,
\* and the result is as long as the longest reconciled input.
C5_MergeSumClampedOnce ==
    (Called("merge") /\ args # << >>)
        => /\ length(Result)
                = MaxSeq([k \in 1..Len(args) |-> length(Reconciled[k])], 0)
           /\ \A ch \in 1..num_channels(Result), j \in 1..length(Result) :
                Result.samples[ch][j]
                    = Clamp1(SumSeq([k \in 1..Len(args) |-> SampleOf(k, ch, j)]))

\* C9: concat of a non-empty list is as long as its inputs together, each at
\* the first one's rate, and holds their samples one after the other in
\* input order with no gap or overlap.
C9_Concat ==
    (Called("concat") /\ args # << >>)
        => /\ Result.sample_rate = args[1].sample_rate
           /\ length(Result) = SumSeq([k \in 1..Len(args) |-> length(Reconciled[k])])
           /\ \A ch \in 1..num_channels(Result) :
                /\ Len(Result.samples[ch]) = length(Result)
                /\ \A k \in 1..Len(args) : \A j \in 1..length(Reconciled[k]) :
                    Result.samples[ch]
                        [SumSeq([m \in 1..(k - 1) |-> length(Reconciled[m])]) + j]
                            = SampleOf(k, ch, j)

\* concat was applied to buffers of different rates and channel counts.
C9_Witness ==
    /\ Called("concat") /\ Len(args) = 3
    /\ args[2].sample_rate # args[1].sample_rate
    /\ num_channels(args[3]) # num_channels(args[1])
    /\ \A k \in 1..3 : length(args[k]) > 0
    /\ length(Result) > 3

EchoDelay == UnwrapOr(opts.delay, 250)

EchoRepeats == UnwrapOr(opts.repeats, 3)

\* C10 as claimed, for the delays that are not negative: the echo is
\* repeats * round(delay * sampleRate) longer than its input.
C10_EchoLengthRounded ==
    (Called("echo") /\ EchoDelay >= 0)
        => LET product == EchoDelay * args[1].sample_rate
               rounded == (product + 500) \div 1000
           IN  length(Result) = length(args[1]) + EchoRepeats * rounded

\* C10, amended: the echo is repeats * trunc(delay * sampleRate) longer than
\* its input, the delay in samples being cut to a whole number (0 for a
\* negative delay), with delay 0.25 and repeats 3 where the options give none.
C10_EchoLength ==
    Called("echo")
        => LET product == EchoDelay * args[1].sample_rate
               truncated == IF product < 0 THEN 0 ELSE product \div 1000
           IN  length(Result) = length(args[1]) + EchoRepeats * truncated

\* An echo whose delay falls between two samples, nearer the later one, was
\* applied and made the buffer longer.
C10_Witness ==
    /\ Called("echo")
    /\ IsSome(opts.delay) /\ IsSome(opts.repeats) /\ opts.repeats[1] >= 1
    /\ (EchoDelay * args[1].sample_rate) % 1000 >= 500
    /\ length(args[1]) > 0
    /\ length(Result) > length(args[1])

\* Whether text t holds p as a substring.
Contains(t, p) == \E k \in 1..(Len(t) - Len(p) + 1) : SubSeq(t, k, k + Len(p) - 1) = p

PauseTag ==
    << "<", "p", "a", "u", "s", "e", " ", "v", "a", "l", "u", "e", "=", "\"", "0", ".",
       "5", "\"", ">", "<", "/", "p", "a", "u", "s", "e", ">" >>

\* C11 as claimed: preprocess_script of a script with a literal ellipsis,
\* such as "Hello... world", returns text that contains
\* <pause value="0.5"></pause>.
C11_EllipsisBecomesPause ==
    (Called("preprocess") /\ Contains(out[1].input, << ".", ".", "." >>))
        => Contains(Result, PauseTag)

\* C12 as claimed: a key that misses the embedded set is looked up in the
\* effects directory and then the resource directory, and resolves when
\* either holds its file (and the file decodes).
C12_DirectoryFallback ==
    (Returned /\ Ret.lookup # None)
        => LET lookup == Ret.lookup[1]
           IN  (/\ lookup.key \notin EmbeddedKeys
                /\ lookup.in_effects_dir \/ lookup.in_resource_dir
                /\ lookup.decoded # None)
                    => lookup.fetched # None

Unresolved(ret) == ret.lookup = None \/ ret.lookup[1].fetched = None

\* C13: a sound element whose key does not resolve returns its children's
\* segments and nothing of its own, having evaluated every child; a resolved
\* one returns the sound first; the only error that ends the walk early is a
\* failed synthesis at a text node; and once a sound element has returned,
\* the walk goes on to its next sibling.
C13_UnresolvedSoundSkipped ==
    /\ (Returned /\ TagOf(Ret.node) = "sound")
        => /\ Len(Ret.kid_rets) = Len(Ret.node.children)
           /\ Ret.ret = (IF Unresolved(Ret) THEN << >> ELSE << Ret.lookup[1].fetched[1] >>)
                            \o Flatten(Ret.kid_rets)
    /\ (pc = "failed" /\ trace # << >> /\ audio = None)
        => /\ failure[1].cause = "synthesis"
           /\ trace[Len(trace)][1] = "enter"
           /\ IsText(NodeAt(root, trace[Len(trace)][2]))
    /\ \A t \in 1..Len(trace) :
        LET p == trace[t][2]
            parent == NodeAt(root, SubSeq(p, 1, Len(p) - 1))
        IN  (/\ trace[t][1] = "exit"
             /\ TagOf(NodeAt(root, p)) = "sound"
             /\ p[Len(p)] < Len(parent.children)
             /\ pc \in {"write", "done"})
                => \E u \in (t + 1)..Len(trace) :
                    trace[u] = << "enter", [p EXCEPT ![Len(p)] = @ + 1] >>

\* A sound element with an unknown key and a text child returned the
\* child's segment alone, and the job went on.
C13_Witness ==
    /\ Returned /\ TagOf(Ret.node) = "sound"
    /\ Ret.lookup # None /\ Ret.lookup[1].fetched = None
    /\ Ret.lookup[1].key \notin EmbeddedKeys
    /\ Len(Ret.node.children) >= 1
    /\ Ret.ret # << >> /\ Ret.ret = Flatten(Ret.kid_rets)
    /\ pc = "walk" /\ failure = None

\* The tree nodes the walk has reached: one "enter" per node.
Enters == Cardinality({ t \in 1..Len(trace) : trace[t][1] = "enter" })

\* The <part> children of overlays the walk has entered.
PartEntries ==
    Cardinality({ t \in 1..Len(trace) :
                    /\ trace[t][1] = "enter"
                    /\ TagOf(NodeAt(root, trace[t][2])) = "part"
                    /\ TagOf(NodeAt(root, SubSeq(trace[t][2], 1, Len(trace[t][2]) - 1)))
                        = "overlay" })

\* C14 as claimed: the counter is one per node reached plus one extra per
\* overlay part entered, beyond the per-tree-node count.
C14_PartEntriesExtra ==
    trace # << >> => current_node = Enters + PartEntries

\* C14, amended: the counter is exactly one per tree node the walk has
\* reached, a part of an overlay being counted once, by the overlay, like any
\* other node; the total counts the root too, so the counter stays below the
\* total and every 'generate' progress stays below 1.
C14_CounterBelowTotal ==
    /\ trace # << >> => current_node = Enters
    /\ total_nodes > 0 => current_node < total_nodes
    /\ \A k \in 1..Len(emitted) :
        emitted[k].stage = "generate" => emitted[k].num < emitted[k].den

\* A job whose script has an overlay with two parts finished having reached
\* every node below the root.
C14_Witness ==
    /\ pc = "done"
    /\ PartEntries >= 2
    /\ current_node = total_nodes - 1

\* C15: every progress event has a ratio within [0,1] and a stage among
\* start, download, generate, write, complete; a 'generate' event carries
\* 0.1 + 0.9 * processed / total, which is at most 1.
C15_ProgressInRange ==
    \A k \in 1..Len(emitted) :
        LET e == emitted[k]
        IN  /\ e.den > 0 /\ 0 <= e.num /\ e.num <= e.den
            /\ e.stage \in {"start", "download", "generate", "write", "complete"}
            /\ e.stage = "generate"
                => /\ e.num = total_nodes + 9 * current_node
                   /\ e.den = 10 * total_nodes

\* The last node of a script of five nodes reported its progress.
C15_Witness ==
    /\ emitted # << >> /\ emitted[1].stage = "generate"
    /\ total_nodes >= 6 /\ current_node = total_nodes - 1
    /\ 10 * emitted[1].num > 9 * emitted[1].den

\* C16: in the walk the counter never decreases and total_nodes, the count
\* of the parsed tree, never changes; a step that visits a node (a new
\* "enter") adds exactly one to the counter and emits that node's event with
\* the new count.
C16_CounterSteps ==
    [][ pc = "walk"
            => /\ total_nodes' = total_nodes
               /\ total_nodes = count_nodes(root)
               /\ current_node' >= current_node
               /\ Enters' # Enters
                    => /\ Enters' = Enters + 1
                       /\ current_node' = current_node + 1
                       /\ Len(emitted') = 1
                       /\ emitted'[1].stage = "generate"
                       /\ emitted'[1].num = total_nodes + 9 * (current_node + 1)
                       /\ emitted'[1].den = 10 * total_nodes ]_vars

\* The walk has visited three nodes and the third one's event is out.
C16_Witness ==
    /\ pc = "walk" /\ current_node = 3
    /\ emitted # << >>
    /\ emitted[1].num = total_nodes + 27

Prefetching == pc \in {"models", "voices"}

\* The file the prefetch loop is at.
CurrentFile == IF pc = "models" THEN model_files[idx + 1] ELSE voice_files[idx + 1]

\* Whether a step announced a download.
Announced(events) ==
    \E k \in 1..Len(events) :
        /\ events[k].stage = "download"
        /\ events[k].message \in {"Downloading model", "Downloading voice"}

\* C17: no node is evaluated before the prefetch is over and every file is
\* there; the voice files come after the model files; a prefetch step
\* touches only the file the loop is at, downloads it exactly when it is
\* missing, and either completes it and moves on to the next file, never to
\* return, or fails the job; and nothing at all happens after a failure.
C17_Prefetch ==
    /\ [](/\ pc \in {"init", "models", "voices", "load", "parse"}
                => trace = << >> /\ current_node = 0 /\ tts_calls = << >> /\ stack = << >>
          /\ trace # << >> => \A f \in AssetFiles : fs[f] = "complete"
          /\ pc = "voices" => \A k \in 1..Len(model_files) : fs[model_files[k]] = "complete"
          /\ (failure # None /\ failure[1].cause = "download")
                => pc = "failed" /\ trace = << >>)
    /\ [][/\ pc = "failed" => FALSE
          /\ Prefetching
                => LET files == IF pc = "models" THEN model_files ELSE voice_files
                   IN  /\ \A f \in AssetFiles \ {CurrentFile} : fs'[f] = fs[f]
                       /\ Announced(emitted') <=> fs[CurrentFile] = "missing"
                       /\ fs[CurrentFile] # "missing" => fs' = fs /\ pc' # "failed"
                       /\ pc' = "failed"
                            => /\ failure' # None /\ failure'[1].cause = "download"
                               /\ fs'[CurrentFile] # "complete"
                       /\ pc' # "failed"
                            => /\ fs'[CurrentFile] = "complete"
                               /\ IF idx + 1 < Len(files)
                                  THEN pc' = pc /\ idx' = idx + 1
                                  ELSE idx' = 0
                                       /\ pc' = IF pc = "models" THEN "voices" ELSE "load"
         ]_vars

\* The second model file failed to download after the first was fetched,
\* and the files after it are still missing.
C17_Witness ==
    /\ pc = "failed" /\ failure # None /\ failure[1].cause = "download"
    /\ idx = 1
    /\ fs[model_files[1]] = "complete"
    /\ fs[model_files[2]] # "complete"
    /\ \A k \in 3..Len(model_files) : fs[model_files[k]] = "missing"
    /\ \A k \in 1..Len(voice_files) : fs[voice_files[k]] = "missing"

\* Whether no sample of the buffer exceeds the threshold in size.
Quiet(buffer, threshold) ==
    \A ch \in 1..num_channels(buffer) : \A j \in 1..Len(buffer.samples[ch]) :
        Abs(buffer.samples[ch][j]) <= threshold

\* C18: trim_silence of a buffer with every sample at or below a positive
\* threshold, an all-zero or zero-length one included, returns one channel
\* of exactly one sample at the input's rate and does not fail.
C18_QuietTrimsToOneSample ==
    (Called("trim") /\ out[1].threshold > 0 /\ Quiet(out[1].input, out[1].threshold))
        => /\ ~out[1].panicked
           /\ Result = AudioBuffer_new(1, 1, out[1].input.sample_rate)
           /\ length(Result) = 1

\* A two-channel buffer of quiet, non-zero samples was trimmed.
C18_Witness ==
    /\ Called("trim") /\ Quiet(out[1].input, out[1].threshold)
    /\ num_channels(out[1].input) = 2 /\ length(out[1].input) = 2
    /\ out[1].input.samples[2][1] # 0
    /\ ~out[1].panicked /\ length(Result) = 1

\* C19: an effect element whose children produced no segment returns no
\* segment; otherwise it returns exactly one segment, the effect applied with
\* the element's options to the concatenation of its children's segments.
C19_EffectOneSegment ==
    (Returned /\ TagOf(Ret.node) = "effect")
        => LET child_segments == Flatten(Ret.kid_rets)
           IN  IF child_segments = << >>
               THEN Ret.ret = << >>
               ELSE /\ Len(Ret.ret) = 1
                    /\ Ret.ret[1] = apply_effect(EffectName(Ret.node),
                                                 concat(child_segments),
                                                 EffectOptionsOf(Ret.node))

\* An echo over two child segments returned one segment longer than their
\* concatenation.
C19_Witness ==
    /\ Returned /\ TagOf(Ret.node) = "effect" /\ EffectName(Ret.node) = "echo"
    /\ Len(Flatten(Ret.kid_rets)) = 2
    /\ Len(Ret.ret) = 1
    /\ length(Ret.ret[1]) > length(concat(Flatten(Ret.kid_rets)))

\* Whether the record is the return of an effect element whose name is none
\* of echo, binaural and pan.
UnknownEffect(ret) ==
    /\ ret # None /\ TagOf(ret[1].node) = "effect"
    /\ EffectName(ret[1].node) \notin {"echo", "binaural", "pan"}

\* C20: an effect element whose name is not echo, binaural or pan returns the
\* concatenation of its children's segments unchanged (samples, channels,
\* length and rate), whatever preset and options it carries, and the step
\* that returns it raises no error.
C20_UnknownEffectPassThrough ==
    /\ [](UnknownEffect(last_ret) /\ Flatten(Ret.kid_rets) # << >>
            => LET target == concat(Flatten(Ret.kid_rets))
               IN  /\ Ret.ret = << target >>
                   /\ Ret.ret[1].samples = target.samples
                   /\ num_channels(Ret.ret[1]) = num_channels(target)
                   /\ length(Ret.ret[1]) = length(target)
                   /\ Ret.ret[1].sample_rate = target.sample_rate)
    /\ [][(last_ret' # last_ret /\ UnknownEffect(last_ret'))
            => (failure' = None /\ pc' = "walk")]_vars

\* An effect named reverb, carrying a preset and options, returned its two
\* child segments joined.
C20_Witness ==
    /\ UnknownEffect(last_ret)
    /\ Ret.node.attrs.value = Some("reverb")
    /\ IsSome(Ret.node.attrs.preset) /\ IsSome(Ret.node.attrs.options)
    /\ Len(Flatten(Ret.kid_rets)) = 2
    /\ Ret.ret = << concat(Flatten(Ret.kid_rets)) >>
    /\ failure = None

\* The duration a pause element asks for, in thousandths of a second: its
\* value where that parses as a number, else one second.
AskedPause(node) ==
    IF IsSome(node.attrs.value) /\ IsSome(parse_f32(node.attrs.value[1]))
    THEN parse_f32(node.attrs.value[1])[1]
    ELSE 1000

\* C21: a pause element returns, first, one mono segment of zeros at the
\* working rate whose length is its duration times the rate (one second when
\* the value is missing or does not parse), then its children's segments in
\* document order.
C21_PauseThenChildren ==
    (Returned /\ TagOf(Ret.node) = "pause")
        => /\ Len(Ret.ret) = 1 + Len(Flatten(Ret.kid_rets))
           /\ Ret.ret[1] = AudioBuffer_new(1, AsUsize(AskedPause(Ret.node) * sample_rate),
                                           sample_rate)
           /\ \A j \in 1..length(Ret.ret[1]) : Ret.ret[1].samples[1][j] = 0
           /\ Tail(Ret.ret) = Flatten(Ret.kid_rets)

\* A pause whose value does not parse returned one second of silence
\* followed by the segment of its child.
C21_Witness ==
    /\ Returned /\ TagOf(Ret.node) = "pause"
    /\ IsSome(Ret.node.attrs.value) /\ parse_f32(Ret.node.attrs.value[1]) = None
    /\ Len(Flatten(Ret.kid_rets)) >= 1
    /\ Len(Ret.ret) >= 2
    /\ length(Ret.ret[1]) = sample_rate

\* C22: resample to a rate r returns a buffer whose sample rate is r, and
\* when r is the buffer's own rate the result is the input, channel by
\* channel and sample by sample.
C22_ResampleRate ==
    Called("resample")
        => /\ Result.sample_rate = out[1].target
           /\ (out[1].target = args[1].sample_rate)
                => /\ num_channels(Result) = num_channels(args[1])
                   /\ \A ch \in 1..num_channels(args[1]) :
                        Result.samples[ch] = args[1].samples[ch]

\* A two-channel buffer at rate 4 was resampled to rate 8 and came out longer.
C22_Witness ==
    /\ Called("resample")
    /\ num_channels(args[1]) = 2 /\ args[1].sample_rate = 4 /\ out[1].target = 8
    /\ Result.sample_rate = 8
    /\ length(Result) > length(args[1])

\* The text &amp; &lt; &gt;
EntityText ==
    << "&", "a", "m", "p", ";", " ", "&", "l", "t", ";", " ", "&", "g", "t", ";" >>

\* C23: preprocess_script of a text that contains &amp; &lt; &gt; returns a
\* text that contains the literal characters & < > in their place.
C23_EntitiesUnescaped ==
    (Called("preprocess") /\ Contains(out[1].input, EntityText))
        => /\ Contains(Result, << "&", " ", "<", " ", ">" >>)
           /\ ~Contains(Result, EntityText)

\* The entities were unescaped inside a longer text.
C23_Witness ==
    /\ Called("preprocess")
    /\ Contains(out[1].input, EntityText) /\ Len(out[1].input) > Len(EntityText)
    /\ Result = << "a", "&", " ", "<", " ", ">", "b" >>

\* C24 as claimed: for every buffer, one shorter than the minimum-silence
\* window included, and every positive threshold, trim_silence reads no
\* sample at or past the input's length and returns a buffer of at least 1
\* and at most max(1, input length) samples.
C24_TrimInBounds ==
    (Called("trim") /\ out[1].threshold > 0)
        => /\ ~out[1].panicked
           /\ length(Result) >= 1
           /\ length(Result) <= Max(1, length(out[1].input))

\* C25 as claimed: after a download of an asset file failed, at whatever
\* step, no file is left at an asset's local path (no created-but-unfinished
\* file that a later presence check would take for the asset).
C25_FailedDownloadLeavesNoFile ==
    (failure # None /\ failure[1].cause = "download")
        => \A f \in AssetFiles : fs[f] # "partial"

\* Whether the buffer is at the working rate with channels of one length.
WellFormed(buffer) ==
    /\ buffer.sample_rate = sample_rate
    /\ num_channels(buffer) >= 1
    /\ \A ch \in 1..num_channels(buffer) : Len(buffer.samples[ch]) = length(buffer)

\* C26: every segment process_node returns or holds, for every tag and
\* nesting, is at the working sample rate with channels of equal length, so
\* every buffer a concat, merge or effect of the walk takes is already at
\* that rate, and the final buffer is at the working rate.
C26_WorkingRate ==
    /\ Returned => \A k \in 1..Len(Ret.ret) : WellFormed(Ret.ret[k])
    /\ \A d \in 1..Len(stack) :
        /\ \A k \in 1..Len(stack[d].segments) : WellFormed(stack[d].segments[k])
        /\ \A k \in 1..Len(stack[d].parts) : WellFormed(stack[d].parts[k])
    /\ \A k \in 1..Len(effect_calls) : WellFormed(effect_calls[k].input)
    /\ audio # None => WellFormed(audio[1])

\* A sound whose file is at another rate than the engine's was returned at
\* the working rate, and the final buffer holds it.
C26_Witness ==
    /\ audio # None /\ length(audio[1]) >= 2
    /\ Returned /\ TagOf(Ret.node) = "sound" /\ Ret.lookup # None
    /\ Ret.lookup[1].decoded # None
    /\ Ret.lookup[1].decoded[1].sample_rate # sample_rate
    /\ Len(Ret.ret) >= 1 /\ Ret.ret[1].sample_rate = sample_rate

\* C27 as claimed: whenever script_to_audio succeeds, the buffer it returns
\* has at least one sample in every channel, also for a script whose only
\* segments are pauses of duration zero.
C27_FinalNeverEmpty ==
    audio # None
        => /\ num_channels(audio[1]) >= 1
           /\ \A ch \in 1..num_channels(audio[1]) : Len(audio[1].samples[ch]) >= 1

\* Whether the path leads to, or below, a direct child of an overlay that is
\* not a part element.
PassedOver(path) ==
    \E n \in 1..Len(path) :
        /\ TagOf(NodeAt(root, SubSeq(path, 1, n - 1))) = "overlay"
        /\ TagOf(NodeAt(root, SubSeq(path, 1, n))) # "part"

\* The nodes below `node` that are, or lie below, a non-part child of an
\* overlay.
RECURSIVE NotEvaluated(_)
NotEvaluated(node) ==
    SumSeq([k \in 1..Len(node.children) |->
                IF TagOf(node) = "overlay" /\ TagOf(node.children[k]) # "part"
                THEN count_nodes(node.children[k])
                ELSE NotEvaluated(node.children[k])])

\* C28: a direct child of an overlay that is not a part element, and
\* everything below it, is never evaluated: it is neither entered nor
\* returned from, causes no synthesis and no effect call, adds nothing to the
\* counter and gives the overlay no segment list; it is counted in
\* total_nodes all the same, so a finished walk has counted that many nodes
\* fewer than the total less the root.
C28_NonPartChildrenSkipped ==
    /\ \A t \in 1..Len(trace) : ~PassedOver(trace[t][2])
    /\ \A k \in 1..Len(tts_calls) : ~PassedOver(tts_calls[k].path)
    /\ \A k \in 1..Len(effect_calls) : ~PassedOver(effect_calls[k].path)
    /\ trace # << >> => current_node = Enters
    /\ (Returned /\ TagOf(Ret.node) = "overlay")
        => Len(Ret.kid_rets) =
            Cardinality({ k \in 1..Len(Ret.node.children) :
                            TagOf(Ret.node.children[k]) = "part" })
    /\ audio # None
        => /\ total_nodes = count_nodes(root)
           /\ current_node = total_nodes - 1 - NotEvaluated(root)

\* A walk finished over an overlay that holds a part and a text outside any
\* part: the text was counted in the total and not in the counter.
C28_Witness ==
    /\ audio # None
    /\ NotEvaluated(root) >= 1
    /\ PartEntries >= 1
    /\ \E k \in 1..Len(root.children) :
        /\ TagOf(root.children[k]) = "overlay"
        /\ \E j \in 1..Len(root.children[k].children) :
            /\ IsText(root.children[k].children[j])
            /\ trim(root.children[k].children[j].text) # ""
    /\ current_node < total_nodes - 1

====
